---- MODULE Spec2Model ----
(***************************************************************************)
(* Verification engine of MCP Defender                                     *)
(* (src/src/defender/verification-utils.ts).                               *)
(*                                                                         *)
(* Each invocation of verifyToolCall / verifyToolResponse is one element   *)
(* of Scans.  JavaScript runs one continuation at a time, so every action  *)
(* below is the code between two suspension points (await) of one          *)
(* invocation, or one event-loop callback (timer, inbound message).        *)
(***************************************************************************)
EXTENDS Integers, Sequences, FiniteSets, TLC

\* ---------------------------------------------------------------- bounds
MaxDigits == 2     \* base-36 digits of a value of Math.random()
NumScans == 2      \* invocations of verifyToolCall/verifyToolResponse in one run
NumRand  == 2      \* distinct values Math.random() can produce in the model
MaxTicks == 1      \* steps of the clock in one run

\* ------------------------------------------------------ program constants
SECURITY_ALERT_TIMEOUT == 30000

Scans == 1..NumScans

\* ------------------------------------------------------------- signatures
\* The signatures the signature store can hold.  "l(" is an LLM signature
\* whose id is not a valid regular-expression fragment.
DetIds == {"d1", "d2"}
LLMIds == {"l1", "l2", "l("}
SignatureSets == {<< >>, <<"d1", "l1">>, <<"l(">>}

isLLMSignature(id) == id \in LLMIds
isDeterministicSignature(id) == id \in DetIds

Range(seq) == {seq[i] : i \in 1..Len(seq)}

\* What the predicate file of a deterministic signature does when it is run.
PredicateBehaviours == {"returns_true", "returns_false"}

\* What the text returned by the LLM holds for one signature id:
\* no SIGNATURE ID/ALLOWED/REASON block, or a block with ALLOWED true/false.
LLMBlocks == {"absent", "true", "false"}

\* The same, and a block whose REASON holds white space alone.
LLMBlocksAll == LLMBlocks \cup {"true_blank", "false_blank"}

ScanModes == {"NONE", "REQUEST_ONLY", "RESPONSE_ONLY", "REQUEST_RESPONSE"}

VARIABLES
    state,                  \* the DefenderState singleton (signatures, settings, signaturesDirectory)
    now,                    \* Date.now()
    pc,                     \* per invocation: the suspension point it is at
    req,                    \* per invocation: the VerificationRequest (type)
    deterministicResults,   \* per invocation: verifyContent's deterministicResults map
    verification,           \* per invocation: verifyToolCall's `verification` (allowed, modelUsed)
    verificationMap,        \* per invocation: the one map object that verification.verificationMap,
                            \* finalScanResult.signatureVerifications and
                            \* updatedVerification.verificationMap all refer to
    finalScanResult,        \* per invocation: finalScanResult (state, allowed)
    finalVerification,      \* per invocation: what handleUserDecision returned (allowed)
    returned,               \* per invocation: the value the invocation returned
    requestId,              \* per invocation: the id generateRequestId gave its escalation
    promise,                \* per invocation: the promise of requestSecurityAlert
    timer,                  \* per invocation: the setTimeout of requestSecurityAlert
    pendingSecurityAlerts,  \* requestId -> {resolve, timeout}
    trace,                  \* per invocation: what it did and sent, in order
    promptCall,             \* a call of generateVerificationInput: arguments, Math.random(), result
    requestCall,            \* a call of makeVerificationRequest: openaiClient, the replies, outcome
    resultsCall,            \* a call of processVerificationResults: the LLM's text, the signatures, result
    configCall,             \* a call of protectConfig and unprotectConfig: the configuration, result
    files,                  \* the main configuration file and its .unprotected.json backup
    recentlyModifiedByUs,   \* the paths marked as written by us
    removalTimers,          \* the setTimeout calls of writeConfig that have not fired, oldest first
    fileResult,             \* what the last restoreUnprotectedConfig or processConfigFile returned
    cursorCall              \* a call of unprotectCursor: the auth token, the rules at Cursor, result

vars == <<state, now, pc, req, deterministicResults, verification, verificationMap,
          finalScanResult, finalVerification, returned, requestId, promise, timer,
          pendingSecurityAlerts, trace, promptCall, requestCall,
          resultsCall,
          configCall,
          files,
          recentlyModifiedByUs,
          removalTimers,
          fileResult,
          cursorCall>>

\* ------------------------------------------------------------------ values
\* output: nothing before the call is made, then the one result.
NoCall == [output |-> << >>]
\* What a path holds: nothing (ENOENT), a directory, a text that is not
\* JSON, or the text of a JSON value, as indented by JSON.stringify(v, null, 2)
\* or otherwise.
Missing == [kind |-> "missing", indent |-> 0, value |-> << >>]
Directory == [kind |-> "directory", indent |-> 0, value |-> << >>]
Invalid == [kind |-> "invalid", indent |-> 0, value |-> << >>]
Json(indent, value) == [kind |-> "json", indent |-> indent, value |-> value]
NoId == << >>
UnknownId == <<-1, 0>>          \* a request id that generateRequestId never returns

NoVerification == [allowed |-> TRUE, modelUsed |-> "none"]
NoScanResult == [state |-> "none", allowed |-> TRUE]
NoReturn == [returned |-> FALSE, allowed |-> TRUE, verificationMap |-> {}]
NoPromise == [status |-> "none", value |-> FALSE, by |-> "none"]
NoTimer == [status |-> "none", deadline |-> 0]

\* One leaf of a SignatureVerificationMap: map[signatureId][modelName].
Entry(id, name, allowed, reason, model) ==
    [signatureId |-> id, signatureName |-> name, allowed |-> allowed,
     reason |-> reason, modelName |-> model]

\* map[id][model] = entry : an entry under the same two keys is replaced.
Put(map, e) ==
    {x \in map : ~(x.signatureId = e.signatureId /\ x.modelName = e.modelName)} \cup {e}

SignatureName(id) ==
    CASE id = "d1" -> "Deterministic 1"
      [] id = "d2" -> "Deterministic 2"
      [] id = "l1" -> "LLM 1"
      [] id = "l2" -> "LLM 2"
      [] id = "l(" -> "LLM paren"
      [] OTHER -> "Unknown Deterministic Signature"

\* ------------------------------------------------------------------- trace
\* id: the scan id the message bears, given by WithScanId; signatures: the
\* signatures an LLM request carries.
Report(st, allowed, map) ==
    [kind |-> "SCAN_RESULT", state |-> st, allowed |-> allowed,
     signatureVerifications |-> map, requestId |-> NoId, id |-> NoId,
     signatures |-> << >>]
Alert(rid, st, allowed, map) ==
    [kind |-> "SHOW_SECURITY_ALERT", state |-> st, allowed |-> allowed,
     signatureVerifications |-> map, requestId |-> rid, id |-> NoId,
     signatures |-> << >>]
Event(kind) ==
    [kind |-> kind, state |-> "none", allowed |-> TRUE,
     signatureVerifications |-> {}, requestId |-> NoId, id |-> NoId,
     signatures |-> << >>]
\* The request makeVerificationRequest sends (684-688), with the signatures
\* generateVerificationInput put in the prompt.
LLMRequest(signatures) == [Event("LLM_REQUEST") EXCEPT !.signatures = signatures]

\* ScanResult objects are built with `id: scanId` (916, 967, 1082, 1133), and
\* the alert bears the ScanResult it is about (794-797).
WithScanId(id, events) ==
    [i \in 1..Len(events) |->
        IF events[i].kind \in {"SCAN_RESULT", "SHOW_SECURITY_ALERT"}
        THEN [events[i] EXCEPT !.id = id]
        ELSE events[i]]

\* ---------------------------------------------------------- pure functions
\* A shouldVerify that reads the scan mode without the direction.
shouldVerify_IgnoreDirection(forResponse) == state.settings.scanMode # "NONE"

\* shouldVerify: lines 724-735.
shouldVerify(forResponse) ==
    LET scanMode == state.settings.scanMode IN
    IF scanMode = "NONE" THEN FALSE
    ELSE IF forResponse
         THEN scanMode = "RESPONSE_ONLY" \/ scanMode = "REQUEST_RESPONSE"
         ELSE scanMode = "REQUEST_ONLY" \/ scanMode = "REQUEST_RESPONSE"

\* The skip reason of verifyToolCall (955-957) / verifyToolResponse (1121-1123).
skipReason(forResponse) ==
    IF state.settings.scanMode = "NONE"
    THEN "Verification skipped - scan mode is set to NONE"
    ELSE IF forResponse
         THEN "Response verification skipped - scan mode is set to REQUEST_ONLY"
         ELSE "Request verification skipped - scan mode is set to RESPONSE_ONLY"

\* determineVerificationMethod: lines 447-463 (the modelName it returns).
determineVerificationMethod ==
    LET llm == state.settings.llm IN
    IF state.settings.loginToken /\ llm.provider = "mcp-defender" THEN "mcp-defender-api"
    ELSE IF llm.apiKey /\ llm.provider = "OpenAI" THEN llm.model
    ELSE "default"

\* createDefaultVerificationResult: lines 577-599.
createDefaultVerificationResult(type, allowed, reason) ==
    [allowed |-> allowed,
     verificationMap |-> {Entry("system", "System", allowed, reason, "system")},
     modelUsed |-> "system"]

\* A JavaScript value a predicate can return: its typeof tag t with the
\* boolean, number or string it holds, and for an object whether it has an
\* `allowed` property and what its `allowed` and `reason` properties hold.
Prim(t, b, n, s) == [t |-> t, b |-> b, n |-> n, s |-> s]
Undefined == Prim("undefined", FALSE, 0, "")
Null == Prim("null", FALSE, 0, "")
Bool(b) == Prim("boolean", b, 0, "")
Num(n) == Prim("number", FALSE, n, "")
Str(s) == Prim("string", FALSE, 0, s)
Value(p) ==
    [t |-> p.t, b |-> p.b, n |-> p.n, s |-> p.s,
     hasAllowed |-> FALSE, allowed |-> Undefined, reason |-> Undefined]
Object(hasAllowed, allowed, reason) ==
    [t |-> "object", b |-> FALSE, n |-> 0, s |-> "",
     hasAllowed |-> hasAllowed, allowed |-> allowed, reason |-> reason]

\* Boolean(v), and the truthiness `||` and `?:` test (176-177).
Truthy(v) ==
    CASE v.t = "boolean" -> v.b
      [] v.t = "number" -> v.n # 0
      [] v.t = "string" -> v.s # ""
      [] v.t = "object" -> TRUE
      [] OTHER -> FALSE

\* The matchesRegex helper of the execution context (127-134): false for a
\* pattern new RegExp rejects, else whether the pattern matches.
matchesRegex(patternValid, matches) == IF ~patternValid THEN FALSE ELSE matches

\* What the predicate returns, for the behaviours that return.
returnValue(behaviour) ==
    CASE behaviour = "returns_true" -> Value(Bool(TRUE))
      [] behaviour = "returns_false" -> Value(Bool(FALSE))
      [] behaviour = "returns_deny_x" -> Object(TRUE, Bool(FALSE), Str("x"))
      [] behaviour = "returns_allow_y" -> Object(TRUE, Bool(TRUE), Str("y"))
      [] behaviour = "returns_deny_noreason" -> Object(TRUE, Bool(FALSE), Undefined)
      [] behaviour = "returns_allow_noreason" -> Object(TRUE, Bool(TRUE), Undefined)
      [] behaviour = "returns_deny_emptyreason" -> Object(TRUE, Bool(FALSE), Str(""))
      [] behaviour = "returns_allowed_string" -> Object(TRUE, Str("false"), Str("x"))
      [] behaviour = "returns_allowed_zero" -> Object(TRUE, Num(0), Undefined)
      [] behaviour = "returns_object_noallowed" -> Object(FALSE, Undefined, Str("x"))
      [] behaviour = "returns_number" -> Value(Num(1))
      [] behaviour = "returns_null" -> Value(Null)
      [] behaviour = "returns_matchesRegex_invalid" ->
            Value(Bool(matchesRegex(FALSE, TRUE)))
      [] OTHER -> Value(Undefined)

\* A counterpart of standardResult whose object branch ignores result.reason.
standardResult_GenericReason(result) ==
    IF result.t = "boolean" \/ (result.t = "object" /\ result.hasAllowed)
    THEN LET a == IF result.t = "boolean" THEN result.b ELSE Truthy(result.allowed)
         IN [allowed |-> a,
             reason |-> IF a THEN "Deterministic check passed"
                        ELSE "Deterministic check failed"]
    ELSE [allowed |-> FALSE, reason |-> "Invalid signature function return type"]

\* "Return standardized result" (171-181).
standardResult(result) ==
    IF result.t = "boolean"
    THEN [allowed |-> result.b,
          reason |-> IF result.b THEN "Deterministic check passed"
                     ELSE "Deterministic check failed"]
    ELSE IF result.t = "object" /\ result.hasAllowed
    THEN [allowed |-> Truthy(result.allowed),
          reason |-> IF Truthy(result.reason) THEN result.reason.s
                     ELSE IF Truthy(result.allowed) THEN "Deterministic check passed"
                     ELSE "Deterministic check failed"]
    ELSE [allowed |-> FALSE, reason |-> "Invalid signature function return type"]

\* executeDeterministicSignature throws: the predicate threw a value that
\* String(error) cannot convert (an object without toString and valueOf, such
\* as Object.create(null)), so the catch block itself throws at line 186.
executeThrows(behaviour) == behaviour = "throws_unconvertible"

\* executeDeterministicSignature: lines 107-189, by what the predicate file does.
executeDeterministicSignature(behaviour) ==
    CASE behaviour = "missing" ->
            [allowed |-> FALSE, reason |-> "Function file not found"]
      [] behaviour = "not_function" ->
            [allowed |-> FALSE, reason |-> "Invalid function export - must export a function"]
      [] behaviour = "throws" ->
            [allowed |-> FALSE, reason |-> "Signature execution error"]
      [] OTHER -> standardResult(returnValue(behaviour))

\* new RegExp(`SIGNATURE ID: ${signatureId}...`) throws for an id that is not a
\* well-formed pattern fragment (line 210).
RegExpThrows(signatureId) == signatureId = "l("

\* The enabled signatures of verifyContent (639-644), in the order of state.signatures.
enabledSignatures ==
    SelectSeq(state.signatures, LAMBDA id : id \notin state.settings.disabledSignatures)
llmSignaturesOf(sigs) == SelectSeq(sigs, isLLMSignature)
deterministicSignaturesOf(sigs) == SelectSeq(sigs, isDeterministicSignature)

\* A signature with no block in the output is denied.
missingVerdict_Deny == [allowed |-> FALSE, reason |-> "Signature verification passed"]

\* The verdict of an LLM signature whose pattern is not found in the output
\* (213-214).
missingVerdict == [allowed |-> TRUE, reason |-> "Signature verification passed"]

\* match[1] === 'true' and match[2].trim() of a block that was found (217-218).
matchAllowed(block) == block \in {"true", "true_blank"}
matchReason(block) == IF block \in {"true_blank", "false_blank"} THEN "" ELSE "LLM reason"

\* The loop over llmSignatures of processVerificationResults (205-241):
\* the map after the first n signatures.
RECURSIVE LLMEntries(_, _, _, _)
LLMEntries(llmOutput, llmSignatures, modelName, n) ==
    IF n = 0 THEN {}
    ELSE LET id == llmSignatures[n]
             match == llmOutput[id] # "absent"
             allowed == IF match THEN matchAllowed(llmOutput[id]) ELSE missingVerdict.allowed
             reason == IF match THEN matchReason(llmOutput[id]) ELSE missingVerdict.reason
         IN Put(LLMEntries(llmOutput, llmSignatures, modelName, n - 1),
                Entry(id, SignatureName(id), allowed, reason, modelName))

\* The loop over deterministicResults (244-268).
RECURSIVE DetEntries(_, _)
DetEntries(map, results) ==
    IF DOMAIN results = {} THEN map
    ELSE LET id == CHOOSE k \in DOMAIN results : TRUE
             rest == [k \in DOMAIN results \ {id} |-> results[k]]
         IN DetEntries(Put(map, Entry(id, SignatureName(id), results[id].allowed,
                                      results[id].reason, "deterministic")),
                       rest)

\* overallAllowed without lines 249-251: a deterministic deny does not block.
overallAllowed_IgnoreDeterministic(llmOutput, llmSignatures, results) ==
    \A i \in 1..Len(llmSignatures) :
        llmOutput[llmSignatures[i]] = "absent" \/ matchAllowed(llmOutput[llmSignatures[i]])

\* overallAllowed at the end of the two loops (201, 221-223, 249-251).
overallAllowed(llmOutput, llmSignatures, results) ==
    /\ \A i \in 1..Len(llmSignatures) :
           llmOutput[llmSignatures[i]] = "absent" \/ matchAllowed(llmOutput[llmSignatures[i]])
    /\ \A id \in DOMAIN results : results[id].allowed

\* processVerificationResults without its second loop (244-268): the
\* deterministic verdicts get no entry.
processVerificationResults_LLMOnly(llmOutput, llmSignatures, results, modelName) ==
    [allowed |-> overallAllowed(llmOutput, llmSignatures, results),
     verificationMap |-> LLMEntries(llmOutput, llmSignatures, modelName, Len(llmSignatures)),
     modelUsed |-> modelName]

\* processVerificationResults: lines 194-302.  llmOutput gives, per LLM
\* signature id, what the output text holds for it.
processVerificationResults(llmOutput, llmSignatures, results, modelName) ==
    IF \E i \in 1..Len(llmSignatures) : RegExpThrows(llmSignatures[i])
    THEN \* catch (276-301)
         [allowed |-> FALSE,
          verificationMap |-> {Entry("system", "System Error", FALSE,
                                     "Error processing verification results", "system")},
          modelUsed |-> "system"]
    ELSE LET llmPart == LLMEntries(llmOutput, llmSignatures, modelName, Len(llmSignatures))
             map == DetEntries(llmPart, results)
         IN [allowed |-> overallAllowed(llmOutput, llmSignatures, results),
             verificationMap |-> map, modelUsed |-> modelName]

\* generateRequestId: line 741, `req_${Date.now()}_${Math.random()...}`.
generateRequestId(random) == <<now, random>>

\* scanId: lines 898 and 1080, `${Date.now()}-${Math.random()...}`.
generateScanId(random) == <<now, random>>

\* The signatures generateVerificationInput puts in the prompt (516-536):
\* those of state.signatures that are enabled and of type LLM.
formattedSignatures ==
    LET enabled == SelectSeq(state.signatures,
                       LAMBDA id : id \notin state.settings.disabledSignatures)
    IN SelectSeq(enabled, isLLMSignature)

\* ------------------------------------------------------ the LLM prompt
\* Text is a sequence of characters.
Alphabet == {"a", "b"}
RECURSIVE Texts(_)
Texts(n) == IF n = 0 THEN {<< >>}
            ELSE Texts(n - 1) \cup {Append(x, c) : x \in {y \in Texts(n - 1) : Len(y) = n - 1},
                                                     c \in Alphabet}

\* text.includes(part)
Includes(text, part) ==
    \E i \in 1..(Len(text) + 1) :
        /\ i + Len(part) - 1 <= Len(text)
        /\ SubSeq(text, i, i + Len(part) - 1) = part

\* A value of Math.random() is given by the digits of its base-36 fraction,
\* none for the value 0.  Number.prototype.toString(36) of it:
toString36(digits) == IF digits = << >> THEN <<"0">> ELSE <<"0", ".">> \o digits

\* String.prototype.substring(start, end)
substring(text, start, end) ==
    SubSeq(text, start + 1, IF end < Len(text) THEN end ELSE Len(text))

\* Math.random().toString(36).substring(2, 15) (548, 549)
randomString(digits) == substring(toString36(digits), 2, 15)

\* No tool of that name in an index, and the null of findToolDescription.
NoTool == <<"null">>

\* findToolDescription (1229-1262).  serverTool, protectedTool: the description
\* of the tool in state.serverTools and in state.protectedServers, NoTool
\* where the index has no such tool.  An empty description is falsy.
findToolDescription(serverTool, protectedTool) ==
    IF serverTool \notin {NoTool, << >>} THEN serverTool
    ELSE IF protectedTool \notin {NoTool, << >>} THEN protectedTool
    ELSE NoTool

Section(label, text) == [label |-> label, text |-> text]

\* generateVerificationInput (514-572): the signatures of the prompt, the two
\* delimiters and the sections put between them (566-568).  random: what the
\* two calls of Math.random() give.  toolDescriptionSection (544-545) is
\* built and the template (551-571) does not mention it.
generateVerificationInput(type, toolName, formattedContent, userIntent, toolDescription, random) ==
    LET userIntentSection ==
            IF userIntent # << >> /\ type = "tool_call"
            THEN <<Section("User intent", userIntent)>> ELSE << >>
        toolDescriptionSection ==
            IF toolDescription \notin {NoTool, << >>} /\ type = "tool_call"
            THEN <<Section("Tool description", toolDescription)>> ELSE << >>
    IN [signatures |-> formattedSignatures,
        startInput |-> randomString(random[1]),
        endInput |-> randomString(random[2]),
        data |-> <<Section("Tool name", toolName), Section("content", formattedContent)>>
                     \o userIntentSection]

\* ------------------------------------------------- the verification request
UsageLimit == "Usage limit exceeded. Please upgrade your plan."

\* What the /scan endpoint answers to the fetch of line 352.
BackendReplies == {"ok", "402", "500", "network error"}
\* What openaiClient.chat.completions.create does (429-433).
DirectReplies == {"content", "no content", "rejects"}

Threw(requests, name, message) ==
    [requests |-> requests, threw |-> TRUE, name |-> name, message |-> message,
     value |-> "none"]
Returned(requests, value) ==
    [requests |-> requests, threw |-> FALSE, name |-> "none", message |-> << >>,
     value |-> value]

\* makeBackendVerificationRequest (314-375)
makeBackendVerificationRequest(backend) ==
    IF ~state.settings.loginToken
    THEN Threw(<< >>, "Error", <<"No login token available for backend verification">>)
    ELSE CASE backend = "ok" -> Returned(<<"backend">>, "response")
           [] backend = "402" -> Threw(<<"backend">>, "Error", <<UsageLimit>>)
           [] backend = "500" ->
                  Threw(<<"backend">>, "Error",
                        <<"Backend verification failed with status: ", "500">>)
           [] OTHER -> Threw(<<"backend">>, "TypeError", <<"fetch failed">>)

\* The backend is used whenever there is a login token, whatever the provider.
makeVerificationRequest_AnyProvider(openaiClient, backend, direct) ==
    IF state.settings.loginToken
    THEN makeBackendVerificationRequest(backend)
    ELSE Threw(<< >>, "Error", <<"Error: Login to MCP Defender in settings ">>)

\* makeVerificationRequest (380-441).  openaiClient: whether the module's
\* client is initialised (16, 37).
makeVerificationRequest(openaiClient, backend, direct) ==
    LET loginToken == state.settings.loginToken
        llmSettings == state.settings.llm
    IN
    IF loginToken /\ llmSettings.provider = "mcp-defender"
    THEN LET result == makeBackendVerificationRequest(backend) IN
         IF result.threw
         THEN \* 407-409: 'Verification failed with error: ' + error
              Threw(result.requests, "Error",
                    <<"Verification failed with error: ", result.name, ": ">> \o result.message)
         ELSE result
    ELSE IF ~loginToken /\ llmSettings.provider = "mcp-defender"
    THEN Threw(<< >>, "Error", <<"Error: Login to MCP Defender in settings ">>)
    ELSE IF llmSettings.provider = "OpenAI" /\ ~openaiClient
    THEN Threw(<< >>, "Error",
               <<"OpenAI client not initialized and backend verification failed">>)
    ELSE IF ~openaiClient
    THEN \* 429: openaiClient is null
         Threw(<< >>, "TypeError", <<"Cannot read properties of null (reading 'chat')">>)
    ELSE CASE direct = "content" -> Returned(<<"openai">>, "content")
           [] direct = "no content" -> Returned(<<"openai">>, "")
           [] OTHER -> Threw(<<"openai">>, "Error", <<"request failed">>)

\* No output text: the llmOutput = '' of verifyContent when no LLM request is made.
EmptyOutput == [id \in Range(state.signatures) \cap LLMIds |-> "absent"]

\* -------------------------------------------------------------------- Init
TypeOf(forResponse) == IF forResponse THEN "tool_response" ELSE "tool_call"

\* The settings of the model: a login token with the hosted provider, so
\* determineVerificationMethod names the evaluator "mcp-defender-api".
Settings(mode, disabled) ==
    [scanMode |-> mode, disabledSignatures |-> disabled, loginToken |-> TRUE,
     llm |-> [provider |-> "mcp-defender", apiKey |-> FALSE, model |-> "gpt-5"]]

\* Every state.signatures of SignatureSets with every disabled set over it.
States ==
    {[signatures |-> sigs, signaturesDirectory |-> dir, settings |-> Settings(mode, dis)] :
        sigs \in SignatureSets, dir \in BOOLEAN, mode \in ScanModes,
        dis \in SUBSET (DetIds \cup LLMIds)}

EnabledDeterministic(st) ==
    {id \in Range(st.signatures) \cap DetIds : id \notin st.settings.disabledSignatures}

\* The states a run starts from.  shouldVerify reads the scan mode alone and
\* verifyContent never reads it, so the signature store varies under
\* REQUEST_RESPONSE and the scan mode varies over one store; the signatures
\* directory is missing only where a deterministic signature would look for it.
InitialStates ==
    {st \in States :
        /\ st.settings.disabledSignatures \subseteq Range(st.signatures)
        /\ ~st.signaturesDirectory => EnabledDeterministic(st) # {}
        /\ st.settings.scanMode # "REQUEST_RESPONSE" =>
              /\ st.signatures = <<"d1", "l1">>
              /\ st.settings.disabledSignatures = {}
              /\ st.signaturesDirectory}

Init ==
    /\ state \in InitialStates
    /\ now = 0
    /\ pc = [s \in Scans |-> "idle"]
    /\ req = [s \in Scans |-> [type |-> "none"]]
    /\ deterministicResults = [s \in Scans |-> << >>]
    /\ verification = [s \in Scans |-> NoVerification]
    /\ verificationMap = [s \in Scans |-> {}]
    /\ finalScanResult = [s \in Scans |-> NoScanResult]
    /\ finalVerification = [s \in Scans |-> NoVerification]
    /\ returned = [s \in Scans |-> NoReturn]
    /\ requestId = [s \in Scans |-> NoId]
    /\ promise = [s \in Scans |-> NoPromise]
    /\ timer = [s \in Scans |-> NoTimer]
    /\ pendingSecurityAlerts = << >>
    /\ trace = [s \in Scans |-> << >>]
    /\ promptCall = NoCall
    /\ requestCall = NoCall
    /\ resultsCall = NoCall
    /\ configCall = NoCall
    /\ files = [main |-> Missing, backup |-> Missing]
    /\ recentlyModifiedByUs = {}
    /\ removalTimers = << >>
    /\ fileResult = NoCall
    /\ cursorCall = NoCall

\* ----------------------------------------------------------------- actions
\* A promise continuation is a microtask: it runs before the event loop takes
\* the next timer or message, so an action is one task together with the
\* continuations it releases, up to the next wait for the network, the timer
\* or the user.

\* pendingSecurityAlerts.set(id, rec) and .delete(id).
MapSet(map, id, rec) == [k \in DOMAIN map \cup {id} |-> IF k = id THEN rec ELSE map[k]]
MapDelete(map, id) == [k \in DOMAIN map \ {id} |-> map[k]]

\* resolve(value) of a promise: settles it once, a no-op afterwards.
Resolve(p, value, by) ==
    IF p.status = "pending" THEN [status |-> "resolved", value |-> value, by |-> by] ELSE p

UserOverride ==
    Entry("user_override", "User Override", TRUE,
          "User manually allowed this operation", "manual")

\* The record stored and the scan reported, with no alert sent.
escalation_NoAlert(id, v) ==
    << Report("in_progress", v.allowed, v.verificationMap), Event("PENDING_SET") >>

\* The alert sent before the in_progress report.
escalation_AlertFirst(id, v) ==
    << Event("PENDING_SET"),
       Alert(id, "in_progress", v.allowed, v.verificationMap),
       Report("in_progress", v.allowed, v.verificationMap) >>

\* What a blocked verdict makes handleUserDecision (825-834) and
\* requestSecurityAlert (780-798) do, in order: report the scan in_progress,
\* store the pending record, send the alert.
escalation(id, v) ==
    << Report("in_progress", v.allowed, v.verificationMap),
       Event("PENDING_SET"),
       Alert(id, "in_progress", v.allowed, v.verificationMap) >>

\* A timeout that lets the operation through.
timeoutDecision_Allow == TRUE

\* The decision of the timeout callback (784).
timeoutDecision == FALSE

\* A final ScanResult that is given an id of its own.
finalScanResultId_Fresh(tr) == <<now, 0>>

\* The id of finalScanResult (967, 1133: "Use the same ID to update the initial
\* scan"): the scanId the invocation generated at its start, which the initial
\* ScanResult, the first thing it sent, bears.
finalScanResultId(tr) == tr[1].id

\* verifyToolCall/verifyToolResponse once `verification` v is known (962-1001,
\* 1128-1167), tr being what the invocation did so far: builds finalScanResult
\* and calls handleUserDecision (815-834, 879).  An allowed verdict is reported
\* and returned; a blocked one is reported in_progress and requestSecurityAlert
\* (775-802) registers the request and sends the alert.  random: what
\* Math.random() gives generateRequestId.
Proceed(s, v, tr, random) ==
    LET scanId == finalScanResultId(tr) IN
    /\ verification' = [verification EXCEPT ![s] =
           [allowed |-> v.allowed, modelUsed |-> v.modelUsed]]
    /\ verificationMap' = [verificationMap EXCEPT ![s] = v.verificationMap]
    /\ IF v.allowed
       THEN /\ finalVerification' = [finalVerification EXCEPT ![s] =
                   [allowed |-> v.allowed, modelUsed |-> v.modelUsed]]
            /\ finalScanResult' = [finalScanResult EXCEPT ![s] =
                   [state |-> "completed", allowed |-> v.allowed]]
            /\ trace' = [trace EXCEPT ![s] =
                   tr \o WithScanId(scanId,
                             <<Report("completed", v.allowed, v.verificationMap)>>)]
            /\ returned' = [returned EXCEPT ![s] =
                   [returned |-> TRUE, allowed |-> v.allowed,
                    verificationMap |-> v.verificationMap]]
            /\ pc' = [pc EXCEPT ![s] = "done"]
            /\ UNCHANGED <<requestId, promise, timer, pendingSecurityAlerts>>
       ELSE LET id == generateRequestId(random) IN
            /\ finalScanResult' = [finalScanResult EXCEPT ![s] =
                   [state |-> "in_progress", allowed |-> v.allowed]]
            /\ requestId' = [requestId EXCEPT ![s] = id]
            /\ promise' = [promise EXCEPT ![s] =
                   [status |-> "pending", value |-> FALSE, by |-> "none"]]
            /\ timer' = [timer EXCEPT ![s] =
                   [status |-> "armed", deadline |-> now + SECURITY_ALERT_TIMEOUT]]
            /\ pendingSecurityAlerts' =
                   MapSet(pendingSecurityAlerts, id, [resolve |-> s, timeout |-> s])
            /\ trace' = [trace EXCEPT ![s] = tr \o WithScanId(scanId, escalation(id, v))]
            /\ pc' = [pc EXCEPT ![s] = "await_user"]
            /\ UNCHANGED <<finalVerification, returned>>

\* The map with no user_override entry whatever the user decided.
overrideMap_NoEntry(map, userAllowed) == map

\* The map with the user_override entry whatever the user decided.
overrideMap_Always(map, userAllowed) == Put(map, UserOverride)

\* scanResult.signatureVerifications after the user's decision (844-858).
overrideMap(map, userAllowed) ==
    IF userAllowed THEN Put(map, UserOverride) ELSE map

\* An invocation that returns the merged map, not the one its reports carry.
Conclude_ReturnMerged(s, userAllowed) ==
    LET map == overrideMap(verificationMap[s], userAllowed)
        updatedVerification == [verification[s] EXCEPT !.allowed = (userAllowed \/ @)]
        scanAllowed == IF userAllowed THEN TRUE ELSE finalScanResult[s].allowed
    IN
    /\ verificationMap' = [verificationMap EXCEPT ![s] = map]
    /\ finalVerification' = [finalVerification EXCEPT ![s] = updatedVerification]
    /\ finalScanResult' = [finalScanResult EXCEPT ![s] =
           [state |-> "completed", allowed |-> updatedVerification.allowed]]
    /\ trace' = [trace EXCEPT ![s] = @ \o WithScanId(finalScanResultId(trace[s]),
           << Event("RESOLVED"),
              Report("completed", scanAllowed, map),
              Report("completed", updatedVerification.allowed, map) >>)]
    /\ returned' = [returned EXCEPT ![s] =
           [returned |-> TRUE, allowed |-> updatedVerification.allowed,
            verificationMap |-> verificationMap[s]]]
    /\ pc' = [pc EXCEPT ![s] = "done"]

\* handleUserDecision resumed with the user's decision (836-876) and then
\* verifyToolCall/verifyToolResponse to its return (989-1001, 1155-1167).
Conclude(s, userAllowed) ==
    LET map == overrideMap(verificationMap[s], userAllowed)
        updatedVerification == [verification[s] EXCEPT !.allowed = (userAllowed \/ @)]
        scanAllowed == IF userAllowed THEN TRUE ELSE finalScanResult[s].allowed
    IN
    /\ verificationMap' = [verificationMap EXCEPT ![s] = map]
    /\ finalVerification' = [finalVerification EXCEPT ![s] = updatedVerification]
    /\ finalScanResult' = [finalScanResult EXCEPT ![s] =
           [state |-> "completed", allowed |-> updatedVerification.allowed]]
    /\ trace' = [trace EXCEPT ![s] = @ \o WithScanId(finalScanResultId(trace[s]),
           << Event("RESOLVED"),
              Report("completed", scanAllowed, map),
              Report("completed", updatedVerification.allowed, map) >>)]
    /\ returned' = [returned EXCEPT ![s] =
           [returned |-> TRUE, allowed |-> updatedVerification.allowed,
            verificationMap |-> map]]
    /\ pc' = [pc EXCEPT ![s] = "done"]

\* verifyContent when executeDeterministicSignature or makeVerificationRequest
\* threw (704-718).
verificationError(type) ==
    createDefaultVerificationResult(type, type = "tool_response", "Verification error")

\* verifyToolCall (885-960) / verifyToolResponse (1064-1126) from the call, with
\* the part of verifyContent (604-703) that runs before it waits for the LLM.
\* behaviours: what each predicate file does in this call; scanRandom, random:
\* what Math.random() gives at 898/1080 and to generateRequestId.
VerifyStart(s, forResponse, behaviours, scanRandom, random) ==
    /\ pc[s] = "idle"
    /\ \A t \in Scans : t < s => pc[t] # "idle"
    /\ LET type == TypeOf(forResponse)
           scanId == generateScanId(scanRandom)
           initial == WithScanId(scanId, <<Report("in_progress", TRUE, {})>>)[1]
           enabled == enabledSignatures
           llmSignatures == llmSignaturesOf(enabled)
           deterministicSignatures == deterministicSignaturesOf(enabled)
           \* the loop 649-671 ends at the first signature whose execution throws
           throwing ==
               {i \in 1..Len(deterministicSignatures) :
                   /\ state.signaturesDirectory
                   /\ executeThrows(behaviours[deterministicSignatures[i]])}
           last == IF throwing = {} THEN Len(deterministicSignatures)
                   ELSE CHOOSE i \in throwing : \A j \in throwing : i <= j
           results ==
               [id \in {deterministicSignatures[i] : i \in (1..last) \ throwing} |->
                   IF ~state.signaturesDirectory
                   THEN [allowed |-> FALSE, reason |-> "Signatures directory not available"]
                   ELSE executeDeterministicSignature(behaviours[id])]
           executed ==
               IF state.signaturesDirectory
               THEN [i \in 1..last |-> Event("EXECUTE_SIGNATURE")]
               ELSE << >>
           skipped == createDefaultVerificationResult(type, TRUE, skipReason(forResponse))
           none == createDefaultVerificationResult(type, forResponse,
                      IF forResponse
                      THEN "No signatures available for response verification"
                      ELSE "No signatures available for verification")
           merged == processVerificationResults(EmptyOutput, llmSignatures, results,
                                                determineVerificationMethod)
       IN
       /\ req' = [req EXCEPT ![s] = [type |-> type]]
       /\ IF ~shouldVerify(forResponse)
          THEN \* 953-960
               /\ Proceed(s, skipped, <<initial>>, random)
               /\ UNCHANGED deterministicResults
          ELSE IF Len(state.signatures) = 0
          THEN \* 610-619
               /\ Proceed(s, none, <<initial>>, random)
               /\ UNCHANGED deterministicResults
          ELSE IF throwing # {}
          THEN \* 704-718: executeDeterministicSignature threw
               /\ deterministicResults' = [deterministicResults EXCEPT ![s] = results]
               /\ Proceed(s, verificationError(type), <<initial>> \o executed, random)
          ELSE IF Len(llmSignatures) > 0
          THEN \* 675-698: one request for all the enabled LLM signatures
               /\ deterministicResults' = [deterministicResults EXCEPT ![s] = results]
               /\ trace' = [trace EXCEPT ![s] =
                      <<initial>> \o executed \o <<LLMRequest(formattedSignatures)>>]
               /\ pc' = [pc EXCEPT ![s] = "llm"]
               /\ UNCHANGED <<verification, verificationMap, finalScanResult,
                              finalVerification, returned, requestId, promise, timer,
                              pendingSecurityAlerts>>
          ELSE \* 701-703 with llmOutput = ''
               /\ deterministicResults' = [deterministicResults EXCEPT ![s] = results]
               /\ Proceed(s, merged, <<initial>> \o executed, random)
    /\ UNCHANGED <<cursorCall, fileResult, removalTimers, recentlyModifiedByUs, files, configCall, resultsCall, promptCall, requestCall, state, now>>

\* makeVerificationRequest resolved: verifyContent merges (689-703) and the
\* invocation goes on.
LLMReturn(s, llmOutput, random) ==
    /\ pc[s] = "llm"
    /\ Proceed(s, processVerificationResults(llmOutput, llmSignaturesOf(enabledSignatures),
                                             deterministicResults[s],
                                             determineVerificationMethod),
               trace[s], random)
    /\ UNCHANGED <<cursorCall, fileResult, removalTimers, recentlyModifiedByUs, files, configCall, resultsCall, promptCall, requestCall, state, now, req, deterministicResults>>

\* makeVerificationRequest threw (704-718) and the invocation goes on.
LLMFail(s, random) ==
    /\ pc[s] = "llm"
    /\ Proceed(s, verificationError(req[s].type), trace[s], random)
    /\ UNCHANGED <<cursorCall, fileResult, removalTimers, recentlyModifiedByUs, files, configCall, resultsCall, promptCall, requestCall, state, now, req, deterministicResults>>

\* A timeout callback that removes the record and resolves nothing.
TimerFire_NoResolve(s) ==
    /\ timer[s].status = "armed"
    /\ now >= timer[s].deadline
    /\ timer' = [timer EXCEPT ![s].status = "fired"]
    /\ pendingSecurityAlerts' = MapDelete(pendingSecurityAlerts, requestId[s])
    /\ UNCHANGED <<cursorCall, fileResult, removalTimers, recentlyModifiedByUs, files, configCall, resultsCall, promptCall, requestCall, state, now, pc, req, deterministicResults, verification,
                   verificationMap, finalScanResult, finalVerification, returned,
                   requestId, promise, trace>>

\* The setTimeout callback of requestSecurityAlert (782-786), of invocation s,
\* and the invocation it releases.
TimerFire(s) ==
    /\ timer[s].status = "armed"
    /\ now >= timer[s].deadline
    /\ timer' = [timer EXCEPT ![s].status = "fired"]
    /\ promise' = [promise EXCEPT ![s] = Resolve(@, timeoutDecision, "timeout")]
    /\ pendingSecurityAlerts' = MapDelete(pendingSecurityAlerts, requestId[s])
    /\ IF promise[s].status = "pending"
       THEN Conclude(s, timeoutDecision)
       ELSE UNCHANGED <<verificationMap, finalVerification, finalScanResult, trace,
                        returned, pc>>
    /\ UNCHANGED <<cursorCall, fileResult, removalTimers, recentlyModifiedByUs, files, configCall, resultsCall, promptCall, requestCall, state, now, req, deterministicResults, verification, requestId>>

\* The ids a SECURITY_ALERT_RESPONSE can bear: one sent in an alert, or any other.
ResponseIds == {requestId[s] : s \in {x \in Scans : requestId[x] # NoId}} \cup {UnknownId}

\* The message listener (805-810) with handleSecurityAlertResponse (748-768),
\* and the invocation it releases.
HandleResponse(id, allowed) ==
    /\ id \in ResponseIds
    /\ IF id \notin DOMAIN pendingSecurityAlerts
       THEN UNCHANGED <<timer, promise, pendingSecurityAlerts, verificationMap,
                        finalVerification, finalScanResult, trace, returned, pc>>
       ELSE LET pendingRequest == pendingSecurityAlerts[id] IN
            /\ timer' = [timer EXCEPT ![pendingRequest.timeout].status =
                            IF @ = "armed" THEN "cleared" ELSE @]
            /\ promise' = [promise EXCEPT ![pendingRequest.resolve] =
                            Resolve(@, allowed, "response")]
            /\ pendingSecurityAlerts' = MapDelete(pendingSecurityAlerts, id)
            /\ IF promise[pendingRequest.resolve].status = "pending"
               THEN Conclude(pendingRequest.resolve, allowed)
               ELSE UNCHANGED <<verificationMap, finalVerification, finalScanResult,
                                trace, returned, pc>>
    /\ UNCHANGED <<cursorCall, fileResult, removalTimers, recentlyModifiedByUs, files, configCall, resultsCall, promptCall, requestCall, state, now, req, deterministicResults, verification, requestId>>

\* The steps of the clock that lead from 0 to time t.
Ticks(t) == (t \div SECURITY_ALERT_TIMEOUT) + (t % SECURITY_ALERT_TIMEOUT)

\* Time passes: by a millisecond, or by the length of the alert timeout.
Tick(d) ==
    /\ Ticks(now + d) <= MaxTicks
    /\ now' = now + d
    /\ UNCHANGED <<cursorCall, fileResult, removalTimers, recentlyModifiedByUs, files, configCall, resultsCall, promptCall, requestCall, state, pc, req, deterministicResults, verification, verificationMap,
                   finalScanResult, finalVerification, returned, requestId, promise, timer,
                   pendingSecurityAlerts, trace>>

Next ==
    \/ \E s \in Scans, forResponse \in BOOLEAN, b \in [DetIds -> PredicateBehaviours],
          random \in 1..NumRand :
           VerifyStart(s, forResponse, b, 1, random)
    \/ \E s \in Scans, out \in [Range(state.signatures) \cap LLMIds -> LLMBlocks],
          random \in 1..NumRand :
           LLMReturn(s, out, random)
    \/ \E s \in Scans, random \in 1..NumRand : LLMFail(s, random)
    \/ \E s \in Scans : TimerFire(s)
    \/ \E id \in ResponseIds, allowed \in BOOLEAN : HandleResponse(id, allowed)
    \/ \E d \in {1, SECURITY_ALERT_TIMEOUT} : Tick(d)

Spec == Init /\ [][Next]_vars

\* ------------------------------------------- deterministic signatures alone
\* One invocation over a store of two deterministic signatures and one LLM
\* signature, the predicate files doing anything a predicate file can do.
DetBehaviours ==
    {"missing", "not_function", "throws", "throws_unconvertible",
     "returns_true", "returns_false", "returns_deny_x", "returns_allow_y",
     "returns_deny_noreason", "returns_allow_noreason", "returns_deny_emptyreason",
     "returns_allowed_string", "returns_allowed_zero", "returns_object_noallowed",
     "returns_number", "returns_null", "returns_undefined",
     "returns_matchesRegex_invalid"}

DetInitialStates ==
    {[signatures |-> <<"d1", "d2", "l1">>, signaturesDirectory |-> TRUE,
      settings |-> Settings("REQUEST_RESPONSE", dis)] : dis \in {{}, {"l1"}}}

InitDet ==
    /\ state \in DetInitialStates
    /\ now = 0
    /\ pc = [s \in Scans |-> "idle"]
    /\ req = [s \in Scans |-> [type |-> "none"]]
    /\ deterministicResults = [s \in Scans |-> << >>]
    /\ verification = [s \in Scans |-> NoVerification]
    /\ verificationMap = [s \in Scans |-> {}]
    /\ finalScanResult = [s \in Scans |-> NoScanResult]
    /\ finalVerification = [s \in Scans |-> NoVerification]
    /\ returned = [s \in Scans |-> NoReturn]
    /\ requestId = [s \in Scans |-> NoId]
    /\ promise = [s \in Scans |-> NoPromise]
    /\ timer = [s \in Scans |-> NoTimer]
    /\ pendingSecurityAlerts = << >>
    /\ trace = [s \in Scans |-> << >>]
    /\ promptCall = NoCall
    /\ requestCall = NoCall
    /\ resultsCall = NoCall
    /\ configCall = NoCall
    /\ files = [main |-> Missing, backup |-> Missing]
    /\ recentlyModifiedByUs = {}
    /\ removalTimers = << >>
    /\ fileResult = NoCall
    /\ cursorCall = NoCall

NextDet ==
    \/ \E forResponse \in BOOLEAN, b \in [DetIds -> DetBehaviours], random \in 1..NumRand :
           VerifyStart(1, forResponse, b, 1, random)
    \/ \E out \in [Range(state.signatures) \cap LLMIds -> LLMBlocks], random \in 1..NumRand :
           LLMReturn(1, out, random)
    \/ \E random \in 1..NumRand : LLMFail(1, random)
    \/ TimerFire(1)
    \/ \E id \in ResponseIds, allowed \in BOOLEAN : HandleResponse(id, allowed)
    \/ \E d \in {1, SECURITY_ALERT_TIMEOUT} : Tick(d)

SpecDet == InitDet /\ [][NextDet]_vars

\* ----------------------------------------------------- LLM signatures alone
\* One invocation over a store of two LLM signatures and one deterministic
\* signature, any of them disabled, the LLM output holding any block for each.
LLMInitialStates ==
    {[signatures |-> <<"l1", "d1", "l2">>, signaturesDirectory |-> TRUE,
      settings |-> Settings("REQUEST_RESPONSE", dis)] : dis \in SUBSET {"l1", "d1", "l2"}}

InitLLM ==
    /\ state \in LLMInitialStates
    /\ now = 0
    /\ pc = [s \in Scans |-> "idle"]
    /\ req = [s \in Scans |-> [type |-> "none"]]
    /\ deterministicResults = [s \in Scans |-> << >>]
    /\ verification = [s \in Scans |-> NoVerification]
    /\ verificationMap = [s \in Scans |-> {}]
    /\ finalScanResult = [s \in Scans |-> NoScanResult]
    /\ finalVerification = [s \in Scans |-> NoVerification]
    /\ returned = [s \in Scans |-> NoReturn]
    /\ requestId = [s \in Scans |-> NoId]
    /\ promise = [s \in Scans |-> NoPromise]
    /\ timer = [s \in Scans |-> NoTimer]
    /\ pendingSecurityAlerts = << >>
    /\ trace = [s \in Scans |-> << >>]
    /\ promptCall = NoCall
    /\ requestCall = NoCall
    /\ resultsCall = NoCall
    /\ configCall = NoCall
    /\ files = [main |-> Missing, backup |-> Missing]
    /\ recentlyModifiedByUs = {}
    /\ removalTimers = << >>
    /\ fileResult = NoCall
    /\ cursorCall = NoCall

LLMOutputs == [Range(state.signatures) \cap LLMIds -> LLMBlocksAll]

NextLLM ==
    \/ \E forResponse \in BOOLEAN, b \in [DetIds -> PredicateBehaviours],
          random \in 1..NumRand :
           VerifyStart(1, forResponse, b, 1, random)
    \/ \E out \in LLMOutputs, random \in 1..NumRand : LLMReturn(1, out, random)
    \/ \E random \in 1..NumRand : LLMFail(1, random)
    \/ TimerFire(1)
    \/ \E id \in ResponseIds, allowed \in BOOLEAN : HandleResponse(id, allowed)
    \/ \E d \in {1, SECURITY_ALERT_TIMEOUT} : Tick(d)

SpecLLM == InitLLM /\ [][NextLLM]_vars

\* ------------------------------------------------------------ the scan ids
\* The invocations over one store, each with the scan id that Date.now() and
\* Math.random() give it.
ScanInitialStates ==
    {[signatures |-> <<"d1", "l1">>, signaturesDirectory |-> TRUE,
      settings |-> Settings("REQUEST_RESPONSE", {})]}

InitScan ==
    /\ state \in ScanInitialStates
    /\ now = 0
    /\ pc = [s \in Scans |-> "idle"]
    /\ req = [s \in Scans |-> [type |-> "none"]]
    /\ deterministicResults = [s \in Scans |-> << >>]
    /\ verification = [s \in Scans |-> NoVerification]
    /\ verificationMap = [s \in Scans |-> {}]
    /\ finalScanResult = [s \in Scans |-> NoScanResult]
    /\ finalVerification = [s \in Scans |-> NoVerification]
    /\ returned = [s \in Scans |-> NoReturn]
    /\ requestId = [s \in Scans |-> NoId]
    /\ promise = [s \in Scans |-> NoPromise]
    /\ timer = [s \in Scans |-> NoTimer]
    /\ pendingSecurityAlerts = << >>
    /\ trace = [s \in Scans |-> << >>]
    /\ promptCall = NoCall
    /\ requestCall = NoCall
    /\ resultsCall = NoCall
    /\ configCall = NoCall
    /\ files = [main |-> Missing, backup |-> Missing]
    /\ recentlyModifiedByUs = {}
    /\ removalTimers = << >>
    /\ fileResult = NoCall
    /\ cursorCall = NoCall

NextScan ==
    \/ \E s \in Scans, forResponse \in BOOLEAN, b \in [DetIds -> PredicateBehaviours],
          scanRandom \in 1..NumRand, random \in 1..NumRand :
           VerifyStart(s, forResponse, b, scanRandom, random)
    \/ \E s \in Scans, out \in [Range(state.signatures) \cap LLMIds -> LLMBlocks],
          random \in 1..NumRand :
           LLMReturn(s, out, random)
    \/ \E s \in Scans, random \in 1..NumRand : LLMFail(s, random)
    \/ \E s \in Scans : TimerFire(s)
    \/ \E id \in ResponseIds, allowed \in BOOLEAN : HandleResponse(id, allowed)
    \/ \E d \in {1, SECURITY_ALERT_TIMEOUT} : Tick(d)

SpecScan == InitScan /\ [][NextScan]_vars

\* ------------------------------------------------------------ termination
\* Time passes until the timeout of invocation s is due (setTimeout, 782-786).
Elapse(s) ==
    /\ timer[s].status = "armed"
    /\ now < timer[s].deadline
    /\ now' = timer[s].deadline
    /\ UNCHANGED <<cursorCall, fileResult, removalTimers, recentlyModifiedByUs, files, configCall, resultsCall, promptCall, requestCall, state, pc, req, deterministicResults, verification, verificationMap,
                   finalScanResult, finalVerification, returned, requestId, promise, timer,
                   pendingSecurityAlerts, trace>>

\* makeVerificationRequest settles: it resolves or it throws.
LLMSettles(s) ==
    \/ \E out \in [Range(state.signatures) \cap LLMIds -> LLMBlocks], random \in 1..NumRand :
           LLMReturn(s, out, random)
    \/ \E random \in 1..NumRand : LLMFail(s, random)

\* The invocations over a store of one LLM signature.
LiveInitialStates ==
    {[signatures |-> <<"l1">>, signaturesDirectory |-> TRUE,
      settings |-> Settings("REQUEST_RESPONSE", {})]}

InitLive ==
    /\ state \in LiveInitialStates
    /\ now = 0
    /\ pc = [s \in Scans |-> "idle"]
    /\ req = [s \in Scans |-> [type |-> "none"]]
    /\ deterministicResults = [s \in Scans |-> << >>]
    /\ verification = [s \in Scans |-> NoVerification]
    /\ verificationMap = [s \in Scans |-> {}]
    /\ finalScanResult = [s \in Scans |-> NoScanResult]
    /\ finalVerification = [s \in Scans |-> NoVerification]
    /\ returned = [s \in Scans |-> NoReturn]
    /\ requestId = [s \in Scans |-> NoId]
    /\ promise = [s \in Scans |-> NoPromise]
    /\ timer = [s \in Scans |-> NoTimer]
    /\ pendingSecurityAlerts = << >>
    /\ trace = [s \in Scans |-> << >>]
    /\ promptCall = NoCall
    /\ requestCall = NoCall
    /\ resultsCall = NoCall
    /\ configCall = NoCall
    /\ files = [main |-> Missing, backup |-> Missing]
    /\ recentlyModifiedByUs = {}
    /\ removalTimers = << >>
    /\ fileResult = NoCall
    /\ cursorCall = NoCall

NextLive ==
    \/ \E s \in Scans, forResponse \in BOOLEAN, b \in [DetIds -> PredicateBehaviours],
          random \in 1..NumRand :
           VerifyStart(s, forResponse, b, 1, random)
    \/ \E s \in Scans : LLMSettles(s)
    \/ \E s \in Scans : TimerFire(s)
    \/ \E s \in Scans : Elapse(s)
    \/ \E id \in ResponseIds, allowed \in BOOLEAN : HandleResponse(id, allowed)
    \/ Tick(1)

\* Every LLM request settles and every armed timer comes due and fires.
\* Nothing makes an operation start or a human respond.
Fairness ==
    \A s \in Scans :
        /\ WF_vars(LLMSettles(s))
        /\ WF_vars(Elapse(s))
        /\ WF_vars(TimerFire(s))

SpecLive == InitLive /\ [][NextLive]_vars /\ Fairness

\* ------------------------------------------------------- the prompt alone
MaxText == 2       \* characters of a tool name, a content, a user intent
RandomValues == Texts(MaxDigits)

\* What an index holds for the tool: nothing, an empty description, a description.
ToolDescriptions == {NoTool, << >>, <<"a">>, <<"b">>}

PromptCalls ==
    {[type |-> type, toolName |-> toolName, formattedContent |-> formattedContent,
      userIntent |-> userIntent, serverTool |-> serverTool,
      protectedTool |-> protectedTool, random |-> <<first, second>>, output |-> << >>] :
        type \in {"tool_call", "tool_response"},
        serverTool \in ToolDescriptions, protectedTool \in ToolDescriptions,
        toolName \in Texts(1), userIntent \in Texts(1),
        \* formatContent (84-95) never gives the empty string
        formattedContent \in Texts(MaxText) \ {<< >>},
        first \in RandomValues, second \in RandomValues}

InitPrompt ==
    /\ state \in ScanInitialStates
    /\ now = 0
    /\ pc = [s \in Scans |-> "idle"]
    /\ req = [s \in Scans |-> [type |-> "none"]]
    /\ deterministicResults = [s \in Scans |-> << >>]
    /\ verification = [s \in Scans |-> NoVerification]
    /\ verificationMap = [s \in Scans |-> {}]
    /\ finalScanResult = [s \in Scans |-> NoScanResult]
    /\ finalVerification = [s \in Scans |-> NoVerification]
    /\ returned = [s \in Scans |-> NoReturn]
    /\ requestId = [s \in Scans |-> NoId]
    /\ promise = [s \in Scans |-> NoPromise]
    /\ timer = [s \in Scans |-> NoTimer]
    /\ pendingSecurityAlerts = << >>
    /\ trace = [s \in Scans |-> << >>]
    /\ promptCall \in PromptCalls
    /\ requestCall = NoCall
    /\ resultsCall = NoCall
    /\ configCall = NoCall
    /\ files = [main |-> Missing, backup |-> Missing]
    /\ recentlyModifiedByUs = {}
    /\ removalTimers = << >>
    /\ fileResult = NoCall
    /\ cursorCall = NoCall

\* The toolDescription of the VerificationRequest: verifyToolCall looks it up
\* (901-905, 950), verifyToolResponse passes none (1114-1119).
toolDescriptionOf(call) ==
    IF call.type = "tool_call"
    THEN findToolDescription(call.serverTool, call.protectedTool)
    ELSE NoTool

\* verifyContent builds the prompt (678).
GenerateInput ==
    /\ promptCall.output = << >>
    /\ promptCall' = [promptCall EXCEPT !.output =
           <<generateVerificationInput(promptCall.type, promptCall.toolName,
                                       promptCall.formattedContent, promptCall.userIntent,
                                       toolDescriptionOf(promptCall), promptCall.random)>>]
    /\ UNCHANGED <<cursorCall, fileResult, removalTimers, recentlyModifiedByUs, files, configCall, resultsCall, state, now, pc, req, deterministicResults, verification, verificationMap,
                   finalScanResult, finalVerification, returned, requestId, promise, timer,
                   pendingSecurityAlerts, trace, requestCall>>

NextPrompt == GenerateInput

SpecPrompt == InitPrompt /\ [][NextPrompt]_vars

\* ------------------------------------------------------ the request alone
RequestStates ==
    {[signatures |-> <<"l1">>, signaturesDirectory |-> TRUE,
      settings |-> [Settings("REQUEST_RESPONSE", {}) EXCEPT
                        !.loginToken = loginToken, !.llm.provider = provider]] :
        loginToken \in BOOLEAN, provider \in {"mcp-defender", "OpenAI", "other"}}

RequestCalls ==
    {[openaiClient |-> openaiClient, backend |-> backend, direct |-> direct,
      output |-> << >>] :
        openaiClient \in BOOLEAN, backend \in BackendReplies, direct \in DirectReplies}

InitRequest ==
    /\ state \in RequestStates
    /\ now = 0
    /\ pc = [s \in Scans |-> "idle"]
    /\ req = [s \in Scans |-> [type |-> "none"]]
    /\ deterministicResults = [s \in Scans |-> << >>]
    /\ verification = [s \in Scans |-> NoVerification]
    /\ verificationMap = [s \in Scans |-> {}]
    /\ finalScanResult = [s \in Scans |-> NoScanResult]
    /\ finalVerification = [s \in Scans |-> NoVerification]
    /\ returned = [s \in Scans |-> NoReturn]
    /\ requestId = [s \in Scans |-> NoId]
    /\ promise = [s \in Scans |-> NoPromise]
    /\ timer = [s \in Scans |-> NoTimer]
    /\ pendingSecurityAlerts = << >>
    /\ trace = [s \in Scans |-> << >>]
    /\ promptCall = NoCall
    /\ requestCall \in RequestCalls
    /\ resultsCall = NoCall
    /\ configCall = NoCall
    /\ files = [main |-> Missing, backup |-> Missing]
    /\ recentlyModifiedByUs = {}
    /\ removalTimers = << >>
    /\ fileResult = NoCall
    /\ cursorCall = NoCall

\* verifyContent makes the request (689-697) and it settles.
MakeRequest ==
    /\ requestCall.output = << >>
    /\ requestCall' = [requestCall EXCEPT !.output =
           <<makeVerificationRequest(requestCall.openaiClient, requestCall.backend,
                                     requestCall.direct)>>]
    /\ UNCHANGED <<cursorCall, fileResult, removalTimers, recentlyModifiedByUs, files, configCall, resultsCall, state, now, pc, req, deterministicResults, verification, verificationMap,
                   finalScanResult, finalVerification, returned, requestId, promise, timer,
                   pendingSecurityAlerts, trace, promptCall>>

NextRequest == MakeRequest

SpecRequest == InitRequest /\ [][NextRequest]_vars

\* ------------------------------------------------------------- properties
\* The SCAN_RESULT messages invocation s sent, in order.
Reports(s) == SelectSeq(trace[s], LAMBDA e : e.kind = "SCAN_RESULT")
Terminal(e) == e.kind = "SCAN_RESULT" /\ e.state \in {"completed", "error"}
Sent(s, kind) == \E i \in 1..Len(trace[s]) : trace[s][i].kind = kind
Escalated(s) == Sent(s, "SHOW_SECURITY_ALERT")

\* The merged verdict of invocation s is known: its second report carries it.
Merged(s) == Len(Reports(s)) >= 2
MergedReport(s) == Reports(s)[2]

AllAllowed(map) == \A e \in map : e.allowed
SystemOnly(map) ==
    /\ Cardinality(map) = 1
    /\ \A e \in map : e.signatureId = "system" /\ e.modelName = "system"

\* C1 as claimed: the returned `allowed` is the conjunction of the `allowed`
\* of every entry of the returned verification map, on every path.
C1_AllowedIsConjunction ==
    \A s \in Scans :
        returned[s].returned =>
            (returned[s].allowed <=> AllAllowed(returned[s].verificationMap))

\* C1 amended: the returned `allowed` is the conjunction of the entries'
\* `allowed`, unless the user allowed a blocked operation; then it is true and
\* the map holds the user_override/manual entry next to the blocking entries.
C1_AllowedIsConjunctionOrOverride ==
    \A s \in Scans :
        returned[s].returned =>
            LET map == returned[s].verificationMap IN
            /\ UserOverride \notin map => (returned[s].allowed <=> AllAllowed(map))
            /\ UserOverride \in map =>
                  /\ returned[s].allowed
                  /\ ~AllAllowed(map)
                  /\ promise[s].status = "resolved" /\ promise[s].value

C1_Witness ==
    \E s, t \in Scans :
        /\ returned[s].returned /\ UserOverride \in returned[s].verificationMap
        /\ returned[t].returned /\ ~returned[t].allowed
        /\ \E e \in returned[t].verificationMap : e.modelName = "deterministic"

\* The invocation verifies (by the scan mode) with no signature enabled.
NoneEnabled(s, type) ==
    /\ req[s].type = type
    /\ shouldVerify(type = "tool_response")
    /\ Len(enabledSignatures) = 0
    /\ Merged(s)

\* C2 as claimed: a verified tool_call with no signature enabled (empty list
\* or all disabled) is merged to allowed=false with the single entry
\* system/system.
C2_CallWithoutSignaturesBlocked ==
    \A s \in Scans :
        NoneEnabled(s, "tool_call") =>
            /\ ~verification[s].allowed
            /\ ~MergedReport(s).allowed
            /\ SystemOnly(MergedReport(s).signatureVerifications)

\* C3 as claimed: a verified tool_response with no signature enabled (empty
\* list or all disabled) is allowed with the single entry system/system.
C3_ResponseWithoutSignaturesAllowed ==
    \A s \in Scans :
        NoneEnabled(s, "tool_response") =>
            /\ verification[s].allowed
            /\ MergedReport(s).allowed
            /\ SystemOnly(MergedReport(s).signatureVerifications)

ReportStates(s) == [i \in 1..Len(Reports(s)) |-> Reports(s)[i].state]
TerminalReports(s) == {i \in 1..Len(Reports(s)) : Terminal(Reports(s)[i])}

\* C4 as claimed: the reports of one scan are one in_progress, one more
\* in_progress iff the scan was escalated, then exactly one completed or
\* error; never two terminal reports.
C4_OneTerminalReport ==
    \A s \in Scans :
        /\ Cardinality(TerminalReports(s)) <= 1
        /\ pc[s] = "done" =>
              \E last \in {"completed", "error"} :
                  ReportStates(s) = IF Escalated(s)
                                    THEN <<"in_progress", "in_progress", last>>
                                    ELSE <<"in_progress", last>>

\* C5: the first thing an invocation does is report in_progress, before any
\* signature runs, any LLM request and any terminal report; an alert is
\* preceded by the second in_progress report and by no terminal report; no
\* terminal report is sent while the user's decision is pending, and one sent
\* after an alert comes after the decision was resolved.
C5_ReportOrder ==
    \A s \in Scans :
        LET t == trace[s] IN
        /\ Len(t) > 0 => [t[1] EXCEPT !.id = NoId] = Report("in_progress", TRUE, {})
        /\ \A i \in 1..Len(t) :
              t[i].kind \in {"EXECUTE_SIGNATURE", "LLM_REQUEST"} \/ Terminal(t[i]) => i > 1
        /\ \A i \in 1..Len(t) :
              t[i].kind = "SHOW_SECURITY_ALERT" =>
                  /\ \E j \in 2..(i - 1) :
                        t[j].kind = "SCAN_RESULT" /\ t[j].state = "in_progress"
                  /\ \A j \in 1..i : ~Terminal(t[j])
                  /\ \A j \in (i + 1)..Len(t) :
                        Terminal(t[j]) => \E k \in (i + 1)..(j - 1) : t[k].kind = "RESOLVED"
        /\ promise[s].status = "pending" => TerminalReports(s) = {}

C5_Witness ==
    \E s \in Scans :
        /\ pc[s] = "done"
        /\ Escalated(s)
        /\ Sent(s, "LLM_REQUEST")
        /\ Sent(s, "EXECUTE_SIGNATURE")
        /\ TerminalReports(s) # {}

\* The escalation of s timed out: it denies, and no record is left under its id.
TimedOut(s) ==
    /\ promise[s] = [status |-> "resolved", value |-> FALSE, by |-> "timeout"]
    /\ requestId[s] \notin DOMAIN pendingSecurityAlerts
    /\ returned[s].returned /\ ~returned[s].allowed

\* C6: an escalation whose timer fires resolves false and its record is
\* removed; a response bearing its requestId handled afterwards changes no
\* decision and no entry of the pending table.
C6_TimeoutDenies ==
    /\ [](\A s \in Scans : timer[s].status = "fired" => TimedOut(s))
    /\ [][\A s \in Scans, a \in BOOLEAN :
            timer[s].status = "fired" /\ HandleResponse(requestId[s], a) =>
                UNCHANGED <<promise, returned, pendingSecurityAlerts, timer>>]_vars

C6_Witness ==
    \E s \in Scans : timer[s].status = "fired" /\ TimedOut(s) /\ now >= timer[s].deadline

\* C7 as claimed: a response bearing the requestId of an escalation that is
\* pending with its timer armed resolves that escalation with the carried
\* value, deletes the record and cancels the timer for good.
C7_ResponseResolves ==
    [][\A s \in Scans, a \in BOOLEAN :
          /\ promise[s].status = "pending"
          /\ timer[s].status = "armed"
          /\ HandleResponse(requestId[s], a)
          => /\ promise'[s] = [status |-> "resolved", value |-> a, by |-> "response"]
             /\ requestId[s] \notin DOMAIN pendingSecurityAlerts'
             /\ timer'[s].status = "cleared"]_vars

\* C8 as claimed: an escalation is resolved once, by the first response
\* bearing its requestId or its timer; a response for a requestId already
\* resolved or never registered changes no decision and not the pending table.
C8_ResolvedOnce ==
    [][/\ \A s \in Scans : promise[s].status = "resolved" => promise'[s] = promise[s]
       /\ \A s \in Scans, a \in BOOLEAN :
             promise[s].status = "pending" /\ HandleResponse(requestId[s], a) =>
                 promise'[s].status = "resolved" /\ promise'[s].value = a
       /\ \A id \in ResponseIds, a \in BOOLEAN :
             /\ HandleResponse(id, a)
             /\ id = UnknownId \/ \E s \in Scans :
                                      requestId[s] = id /\ promise[s].status = "resolved"
             => UNCHANGED <<promise, returned, pendingSecurityAlerts>>]_vars

\* C9 as claimed: two live escalations never share a requestId (one entry of
\* pendingSecurityAlerts never stands for both), and each live escalation
\* keeps its own record.
C9_DistinctRequestIds ==
    \A s, t \in Scans :
        s # t /\ promise[s].status = "pending" /\ promise[t].status = "pending" =>
            requestId[s] # requestId[t]

\* C10 as claimed: the record is stored before the alert is sent, so an alert
\* sent and not yet resolved has a pending record.
C10_SentAlertIsRegistered ==
    \A s \in Scans :
        /\ \A i \in 1..Len(trace[s]) :
              trace[s][i].kind = "SHOW_SECURITY_ALERT" =>
                  i > 1 /\ trace[s][i - 1].kind = "PENDING_SET"
        /\ Escalated(s) /\ promise[s].status = "pending" =>
              requestId[s] \in DOMAIN pendingSecurityAlerts

\* The map of signature verdicts the merge of invocation s produced.
MergedMap(s) == MergedReport(s).signatureVerifications
HasOverride(map) == \E e \in map : e.signatureId = "user_override"

C12_HumanDenyOrTimeoutBlocks ==
    \A s \in Scans :
        /\ promise[s].status = "resolved" /\ ~promise[s].value =>
              /\ returned[s].returned /\ ~returned[s].allowed
              /\ TerminalReports(s) # {}
              /\ \A i \in TerminalReports(s) :
                    Reports(s)[i].state = "completed" /\ ~Reports(s)[i].allowed
        /\ \/ HasOverride(returned[s].verificationMap)
           \/ \E i \in 1..Len(trace[s]) : HasOverride(trace[s][i].signatureVerifications)
           => promise[s] = [status |-> "resolved", value |-> TRUE, by |-> "response"]

C12_Witness ==
    \E s, t \in Scans :
        /\ promise[s] = [status |-> "resolved", value |-> FALSE, by |-> "timeout"]
        /\ promise[t] = [status |-> "resolved", value |-> FALSE, by |-> "response"]
        /\ returned[s].returned /\ returned[t].returned

\* The scan mode asks for the verification of this direction.
Required(type) ==
    IF type = "tool_response"
    THEN state.settings.scanMode \in {"RESPONSE_ONLY", "REQUEST_RESPONSE"}
    ELSE state.settings.scanMode \in {"REQUEST_ONLY", "REQUEST_RESPONSE"}

SkipText(type) ==
    IF state.settings.scanMode = "NONE"
    THEN "Verification skipped - scan mode is set to NONE"
    ELSE IF type = "tool_response"
         THEN "Response verification skipped - scan mode is set to REQUEST_ONLY"
         ELSE "Request verification skipped - scan mode is set to RESPONSE_ONLY"

IsSkipEntry(e) ==
    e.signatureId = "system" /\ e.modelName = "system" /\
    e.reason \in {"Verification skipped - scan mode is set to NONE",
                  "Response verification skipped - scan mode is set to REQUEST_ONLY",
                  "Request verification skipped - scan mode is set to RESPONSE_ONLY"}

\* C13: a tool call is verified iff the scan mode is REQUEST_ONLY or
\* REQUEST_RESPONSE and a tool response iff it is RESPONSE_ONLY or
\* REQUEST_RESPONSE.  An invocation that is not verified runs no signature,
\* makes no LLM request, raises no alert and returns allowed=true with the
\* single entry system/system carrying the skip text; a verified one runs its
\* enabled signatures and reports no skip entry.
C13_ScanModeDecides ==
    \A s \in Scans :
        req[s].type # "none" =>
            LET type == req[s].type IN
            /\ shouldVerify(type = "tool_response") <=> Required(type)
            /\ ~Required(type) =>
                  /\ ~Sent(s, "EXECUTE_SIGNATURE")
                  /\ ~Sent(s, "LLM_REQUEST")
                  /\ ~Sent(s, "SHOW_SECURITY_ALERT")
                  /\ returned[s].returned /\ returned[s].allowed
                  /\ returned[s].verificationMap =
                        {Entry("system", "System", TRUE, SkipText(type), "system")}
            /\ Required(type) =>
                  /\ \A i \in 1..Len(trace[s]) :
                        \A e \in trace[s][i].signatureVerifications : ~IsSkipEntry(e)
                  /\ Len(llmSignaturesOf(enabledSignatures)) > 0 => Sent(s, "LLM_REQUEST")
                  /\ /\ Len(deterministicSignaturesOf(enabledSignatures)) > 0
                     /\ state.signaturesDirectory
                     => Sent(s, "EXECUTE_SIGNATURE")

C13_Witness ==
    \E s, t \in Scans :
        /\ state.settings.scanMode = "REQUEST_ONLY"
        /\ req[s].type = "tool_response" /\ returned[s].returned
        /\ returned[s].verificationMap =
              {Entry("system", "System", TRUE,
                     "Response verification skipped - scan mode is set to REQUEST_ONLY",
                     "system")}
        /\ req[t].type = "tool_call" /\ Sent(t, "LLM_REQUEST") /\ Sent(t, "EXECUTE_SIGNATURE")

\* An enabled deterministic signature of invocation s yielded deny, or the LLM
\* reported deny for one of its LLM signatures.
SomeDeny(s) ==
    \/ \E id \in DOMAIN deterministicResults[s] : ~deterministicResults[s][id].allowed
    \/ \E e \in MergedMap(s) : e.modelName = determineVerificationMethod /\ ~e.allowed

\* C14 as claimed: a verified operation, call or response, for which an
\* enabled deterministic signature yields deny or the LLM reports deny for an
\* enabled LLM signature has a blocked merged verdict, whatever the other
\* verdicts are and whether the LLM request succeeds or fails.
C14_AnyDenyBlocks ==
    \A s \in Scans :
        Merged(s) /\ Required(req[s].type) /\ SomeDeny(s) => ~verification[s].allowed

\* The verification of invocation s met an exception: its merged map carries
\* the error text of verifyContent's or of processVerificationResults' catch.
Failed(s) ==
    /\ Merged(s)
    /\ \E e \in MergedMap(s) :
          e.reason \in {"Verification error", "Error processing verification results"}

\* C15 as claimed: after an exception in the signatures, the LLM request or
\* the merge, the merged verdict is blocked for a tool_call and allowed for a
\* tool_response, with a single system-level entry carrying the error text.
C15_ExceptionPolicy ==
    \A s \in Scans :
        Failed(s) =>
            /\ verification[s].allowed <=> (req[s].type = "tool_response")
            /\ SystemOnly(MergedMap(s))

\* C16 as claimed: an invocation whose LLM request failed or whose merge
\* threw sends a terminal report, and its terminal report has state error.
C16_FailureReportsError ==
    \A s \in Scans :
        Failed(s) /\ returned[s].returned =>
            /\ TerminalReports(s) # {}
            /\ \A i \in TerminalReports(s) : Reports(s)[i].state = "error"

Alerts(s) == {i \in 1..Len(trace[s]) : trace[s][i].kind = "SHOW_SECURITY_ALERT"}

FailureBehaviours ==
    {"missing", "not_function", "throws", "throws_unconvertible",
     "returns_object_noallowed", "returns_number", "returns_null", "returns_undefined"}

\* The enabled deterministic signatures, as a set of ids.
EnabledDet == Range(deterministicSignaturesOf(enabledSignatures))

\* C18 as claimed: when the execution of one deterministic signature fails
\* (missing file, non-function export, predicate throws, invalid return),
\* that signature alone is denied: every enabled deterministic signature has
\* been executed and has its own verdict, a signature that did not fail has
\* the verdict of its own predicate, and the verification goes on to the LLM
\* request (or, without LLM signatures, to the merge of every verdict).
C18_FailureIsLocal ==
    [][\A f \in BOOLEAN, b \in [DetIds -> DetBehaviours], r \in 1..NumRand :
          VerifyStart(1, f, b, 1, r) /\ (\E id \in EnabledDet : b[id] \in FailureBehaviours) =>
              /\ DOMAIN deterministicResults'[1] = EnabledDet
              /\ \A id \in EnabledDet \cap DOMAIN deterministicResults'[1] :
                    /\ b[id] \in FailureBehaviours => ~deterministicResults'[1][id].allowed
                    /\ b[id] = "returns_true" => deterministicResults'[1][id].allowed
              /\ IF Len(llmSignaturesOf(enabledSignatures)) > 0
                 THEN pc'[1] = "llm" /\ trace'[1][Len(trace'[1])].kind = "LLM_REQUEST"
                 ELSE \A id \in EnabledDet :
                        \E e \in verificationMap'[1] :
                            e.signatureId = id /\ e.modelName = "deterministic"]_vars

\* C19 as claimed: executeDeterministicSignature never throws; for a missing
\* file, a non-function export or a throwing predicate it returns
\* allowed=false with a non-empty reason; a predicate returning what
\* matchesRegex gives for an invalid pattern is denied (matchesRegex gave
\* false and did not throw).
C19_ExecuteNeverThrows ==
    [][\A f \in BOOLEAN, b \in [DetIds -> DetBehaviours], r \in 1..NumRand :
          VerifyStart(1, f, b, 1, r) =>
              \A i \in 1..Len(deterministicSignaturesOf(enabledSignatures)) :
                  LET id == deterministicSignaturesOf(enabledSignatures)[i]
                      before == {deterministicSignaturesOf(enabledSignatures)[j] : j \in 1..(i - 1)}
                  IN  (\A k \in before : ~executeThrows(b[k])) =>
                      /\ ~executeThrows(b[id])
                      /\ id \in DOMAIN deterministicResults'[1]
                      /\ b[id] \in {"missing", "not_function", "throws", "throws_unconvertible"} =>
                            /\ ~deterministicResults'[1][id].allowed
                            /\ deterministicResults'[1][id].reason # ""
                      /\ b[id] = "returns_matchesRegex_invalid" =>
                            deterministicResults'[1][id] =
                                [allowed |-> FALSE, reason |-> "Deterministic check failed"]]_vars

\* The behaviours in which the predicate returns a value.
ReturningBehaviours ==
    DetBehaviours \ {"missing", "not_function", "throws", "throws_unconvertible"}

Generic(allowed) ==
    IF allowed THEN "Deterministic check passed" ELSE "Deterministic check failed"

\* Every verdict of a deterministic signature of invocation s is in its merged
\* map, under the signature's id and the evaluator key deterministic, with
\* the verdict's allowed and reason.
VerdictsInMergedMap(s) ==
    Merged(s) /\ verification[s].modelUsed = determineVerificationMethod =>
        \A id \in DOMAIN deterministicResults[s] :
            Entry(id, SignatureName(id), deterministicResults[s][id].allowed,
                  deterministicResults[s][id].reason, "deterministic") \in MergedMap(s)

DirectoryUnavailable ==
    [allowed |-> FALSE, reason |-> "Signatures directory not available"]

LLMRequests(s) == {i \in 1..Len(trace[s]) : trace[s][i].kind = "LLM_REQUEST"}

\* C21 as claimed: in a verification made while the signatures directory is
\* not available, no predicate is loaded, every enabled deterministic
\* signature has the verdict deny with the directory-unavailable reason, the
\* enabled LLM signatures are sent in one LLM request, and the merged verdict
\* is blocked when a deterministic signature is enabled.
C21_DirectoryUnavailable ==
    \A s \in Scans :
        (/\ pc[s] # "idle"
         /\ Required(req[s].type)
         /\ Len(state.signatures) > 0
         /\ ~state.signaturesDirectory) =>
            /\ ~Sent(s, "EXECUTE_SIGNATURE")
            /\ deterministicResults[s] = [id \in EnabledDet |-> DirectoryUnavailable]
            /\ Len(llmSignaturesOf(enabledSignatures)) > 0 =>
                   Cardinality(LLMRequests(s)) = 1
            /\ Merged(s) /\ EnabledDet # {} =>
                   ~verification[s].allowed /\ ~MergedReport(s).allowed

\* ------------------------------------------------------- LLM verdicts
\* C22: when the LLM request of a verification returns, every enabled LLM
\* signature whose pattern is not found in the output gets the verdict
\* allowed=true with the generic reason, under the LLM evaluator's name; the
\* merged verdict is the conjunction of the verdicts of the LLM signatures so
\* obtained and of the deterministic verdicts, so a signature with no block
\* blocks nothing.
C22_MissingVerdictAllows ==
    [][\A out \in LLMOutputs, r \in 1..NumRand :
          LLMReturn(1, out, r) =>
              LET llm == llmSignaturesOf(enabledSignatures)
                  map == verificationMap'[1]
                  llmPart == {e \in map : e.modelName = determineVerificationMethod}
              IN
              /\ \A i \in 1..Len(llm) :
                    out[llm[i]] = "absent" =>
                        Entry(llm[i], SignatureName(llm[i]), TRUE,
                              "Signature verification passed",
                              determineVerificationMethod) \in map
              /\ {e.signatureId : e \in llmPart} = Range(llm)
              /\ verification'[1].allowed <=>
                    /\ \A e \in llmPart : e.allowed
                    /\ \A id \in DOMAIN deterministicResults[1] :
                          deterministicResults[1][id].allowed
              /\ \A e \in llmPart :
                    out[e.signatureId] # "absent" =>
                        (e.allowed <=> out[e.signatureId] \in {"true", "true_blank"})
      ]_vars

\* A verification whose output had no block for l1 and a denying block for
\* l2: l1 is allowed with the generic reason and l2 alone blocks.
C22_Witness ==
    /\ Merged(1)
    /\ Entry("l1", "LLM 1", TRUE, "Signature verification passed",
             determineVerificationMethod) \in MergedMap(1)
    /\ Entry("l2", "LLM 2", FALSE, "LLM reason", determineVerificationMethod) \in MergedMap(1)
    /\ ~verification[1].allowed
    /\ "d1" \in DOMAIN deterministicResults[1] /\ deterministicResults[1]["d1"].allowed

\* C23 as claimed: a verified operation makes exactly one LLM request if an
\* LLM signature is enabled and none otherwise, and the request carries the
\* enabled LLM signatures, all of them and nothing else.
C23_OneLLMRequest ==
    \A s \in Scans :
        pc[s] # "idle" /\ Required(req[s].type) =>
            LET llm == {id \in Range(state.signatures) \cap LLMIds :
                           id \notin state.settings.disabledSignatures}
            IN
            /\ Cardinality(LLMRequests(s)) = IF llm = {} THEN 0 ELSE 1
            /\ \A i \in LLMRequests(s) :
                  /\ Range(trace[s][i].signatures) = llm
                  /\ Len(trace[s][i].signatures) = Cardinality(llm)

\* ------------------------------------------------------ the merged map
\* The entries a merged map has by the enabled signatures: <<id, evaluator key>>.
ExpectedKeys ==
    {<<id, "deterministic">> : id \in EnabledDet} \cup
    {<<id, determineVerificationMethod>> : id \in Range(llmSignaturesOf(enabledSignatures))}

Keys(map) == {<<e.signatureId, e.modelName>> : e \in map}

\* The merged map of s holds one entry per enabled signature and no other.
OneEntryPerEnabled(s) ==
    /\ Keys(MergedMap(s)) = ExpectedKeys
    /\ Cardinality(MergedMap(s)) = Cardinality(ExpectedKeys)
    /\ \A e \in MergedMap(s) : e.signatureId \notin state.settings.disabledSignatures

\* One enabled deterministic signature that denied and no enabled LLM
\* signature: blocked, with that one entry under the key deterministic.
OneDeterministicDeny(s) ==
    (/\ ExpectedKeys = {<<"d1", "deterministic">>}
     /\ ~deterministicResults[s]["d1"].allowed) =>
        /\ ~verification[s].allowed
        /\ MergedMap(s) = {Entry("d1", "Deterministic 1", FALSE,
                                 deterministicResults[s]["d1"].reason, "deterministic")}

\* C24 as claimed: after a verification that ended without exception the map
\* holds exactly one entry per enabled signature, deterministic ones under the
\* key deterministic and LLM ones under the LLM evaluator's name, and none for
\* a disabled signature.
C24_OneEntryPerEnabledSignature ==
    \A s \in Scans :
        Merged(s) /\ Required(req[s].type) /\ ~Failed(s) =>
            OneEntryPerEnabled(s) /\ OneDeterministicDeny(s)

\* C24 amended: that holds when state.signatures is not empty; with an empty
\* list the map holds the single entry system/system instead.
C24_OneEntryPerEnabledOfNonEmptyList ==
    \A s \in Scans :
        Merged(s) /\ Required(req[s].type) /\ ~Failed(s) =>
            IF Len(state.signatures) > 0
            THEN OneEntryPerEnabled(s) /\ OneDeterministicDeny(s)
            ELSE SystemOnly(MergedMap(s))

\* d1 returned false with l1 disabled: blocked, d1's entry alone in the map.
C24_Witness ==
    /\ state.signatures = <<"d1", "l1">>
    /\ state.settings.disabledSignatures = {"l1"}
    /\ \E s \in Scans :
          /\ Merged(s) /\ ~Failed(s) /\ req[s].type = "tool_call"
          /\ ~verification[s].allowed
          /\ MergedMap(s) = {Entry("d1", "Deterministic 1", FALSE,
                                   "Deterministic check failed", "deterministic")}

\* ------------------------------------------------------------ scan ids
\* The messages of invocation s that bear a ScanResult: its reports and its alert.
ScanMessages(s) ==
    {i \in 1..Len(trace[s]) : trace[s][i].kind \in {"SCAN_RESULT", "SHOW_SECURITY_ALERT"}}

\* C25: every message of one invocation (the initial in_progress report, the
\* in_progress report of the escalation, the scanResult of the alert, the
\* terminal reports) bears the same scan id, the one generated when the
\* invocation started.
C25_OneScanId ==
    \A s \in Scans :
        pc[s] # "idle" =>
            /\ 1 \in ScanMessages(s)
            /\ trace[s][1].id \notin {NoId, UnknownId}
            /\ trace[s][1].id[1] \in 0..now /\ trace[s][1].id[2] \in 1..NumRand
            /\ \A i \in ScanMessages(s) : trace[s][i].id = trace[s][1].id

\* An invocation that started at one time and, escalated, ended at a later one.
C25_Witness ==
    \E s \in Scans :
        /\ pc[s] = "done"
        /\ Escalated(s)
        /\ Cardinality(ScanMessages(s)) = 5
        /\ trace[s][1].id[1] < now

\* Two reports say the same of the scan.
SameResult(e, f) ==
    /\ e.state = f.state
    /\ e.allowed = f.allowed
    /\ e.signatureVerifications = f.signatureVerifications

\* C26 as claimed: once a report with state completed or error has been sent
\* for a scan id, every report sent later for that scan id has the same
\* state, allowed and verification map.
C26_TerminalReportIsFinal ==
    [][\A t \in Scans :
          \A j \in (Len(trace[t]) + 1)..Len(trace'[t]) :
              LET later == trace'[t][j] IN
              later.kind = "SCAN_RESULT" =>
                  /\ \A s \in Scans : \A i \in 1..Len(trace[s]) :
                        Terminal(trace[s][i]) /\ trace[s][i].id = later.id =>
                            SameResult(trace[s][i], later)
                  /\ \A i \in 1..(j - 1) :
                        Terminal(trace'[t][i]) /\ trace'[t][i].id = later.id =>
                            SameResult(trace'[t][i], later)
      ]_vars

\* ---------------------------------------------------------- termination
\* Invocation s returned a decision and sent a terminal report.
Ended(s) ==
    /\ pc[s] = "done"
    /\ returned[s].returned
    /\ \E i \in 1..Len(trace[s]) : Terminal(trace[s][i])

\* C27: if every LLM request settles and every timer fires, every invocation
\* that started returns a decision and sends a terminal report, whether or not
\* a human responds, and every record put in pendingSecurityAlerts is removed.
C27_EveryInvocationEnds ==
    \A s \in Scans :
        /\ (pc[s] # "idle") ~> Ended(s)
        /\ (requestId[s] \in DOMAIN pendingSecurityAlerts) ~>
               (requestId[s] \notin DOMAIN pendingSecurityAlerts)

\* An invocation that no human answered ended by its timeout, its record removed.
C27_Witness ==
    \E s \in Scans :
        /\ Ended(s)
        /\ promise[s] = [status |-> "resolved", value |-> FALSE, by |-> "timeout"]
        /\ requestId[s] # NoId /\ requestId[s] \notin DOMAIN pendingSecurityAlerts

\* -------------------------------------------------------------- reasons
\* C28 as claimed: whenever an invocation returns allowed=false, the map it
\* returns holds an entry with allowed=false and a non-empty reason; after a
\* system-level failure that entry is the single entry of the map, with
\* signature id and evaluator system.
C28_BlockedHasReason ==
    \A s \in Scans :
        returned[s].returned /\ ~returned[s].allowed =>
            /\ \E e \in returned[s].verificationMap : ~e.allowed /\ e.reason # ""
            /\ verification[s].modelUsed = "system" =>
                  SystemOnly(returned[s].verificationMap)

\* ----------------------------------------------------------- delimiters
\* C29 as claimed: in every generated prompt the start and the end delimiter
\* are non-empty and differ, and neither occurs in the tool name, the
\* formatted content or the user intent put between them.
C29_DelimitersAreSound ==
    promptCall.output # << >> =>
        LET input == promptCall.output[1] IN
        /\ input.startInput # << >>
        /\ input.endInput # << >>
        /\ input.startInput # input.endInput
        /\ \A i \in 1..Len(input.data) :
              /\ ~Includes(input.data[i].text, input.startInput)
              /\ ~Includes(input.data[i].text, input.endInput)

\* ------------------------------------------------------------ transport
BackendUsed == "backend" \in Range(requestCall.output[1].requests)

\* C30: makeVerificationRequest calls the hosted backend iff there is a login
\* token and the provider is mcp-defender; it throws without any network
\* request when the provider is mcp-defender and there is no login token, and
\* when there is neither a login token nor an initialised client; a 402 of
\* the backend is thrown as the error bearing the usage-limit message, which
\* no other failure bears.
C30_TransportSelection ==
    requestCall.output # << >> =>
        LET out == requestCall.output[1]
            loginToken == state.settings.loginToken
            hosted == state.settings.llm.provider = "mcp-defender"
        IN
        /\ BackendUsed <=> (loginToken /\ hosted)
        /\ hosted /\ ~loginToken => out.threw /\ out.requests = << >>
        /\ ~loginToken /\ ~requestCall.openaiClient => out.threw /\ out.requests = << >>
        /\ BackendUsed /\ requestCall.backend = "402" =>
               out.threw /\ UsageLimit \in Range(out.message)
        /\ out.threw /\ UsageLimit \in Range(out.message) =>
               BackendUsed /\ requestCall.backend = "402"
        /\ ~out.threw => out.requests # << >>

\* The backend answered 402 and the usage-limit error was thrown.
C30_Witness ==
    /\ requestCall.output # << >>
    /\ requestCall.backend = "402"
    /\ requestCall.output[1].threw
    /\ requestCall.output[1].requests = <<"backend">>
    /\ requestCall.output[1].message =
           <<"Verification failed with error: ", "Error", ": ", UsageLimit>>

\* ------------------------------------------------------ tool description
\* The description the indexes hold for the tool of the call, if any.
DescriptionKnown(call) ==
    findToolDescription(call.serverTool, call.protectedTool) # NoTool

\* C31 as claimed: the input generated for a tool_call whose tool has a
\* description in state.serverTools, or failing that in
\* state.protectedServers, holds that description; the input generated for a
\* tool_response holds no tool description.
C31_ToolDescriptionInInput ==
    promptCall.output # << >> =>
        LET data == promptCall.output[1].data
            described == {i \in 1..Len(data) : data[i].label = "Tool description"}
        IN
        /\ promptCall.type = "tool_call" /\ DescriptionKnown(promptCall) =>
               \E i \in described :
                   data[i].text = findToolDescription(promptCall.serverTool,
                                                      promptCall.protectedTool)
        /\ promptCall.type = "tool_response" => described = {}

\* ------------------------------------------------------ proxy and observer
LastReport(tr) ==
    LET reports == SelectSeq(tr, LAMBDA e : e.kind = "SCAN_RESULT")
    IN reports[Len(reports)]

\* The decision returned by s is the one of the last report s sent.
AgreesWithLastReport(s, ret, tr) ==
    /\ Sent(s, "SCAN_RESULT")
    /\ ret.allowed = LastReport(tr).allowed
    /\ ret.verificationMap = LastReport(tr).signatureVerifications

\* C32: the (allowed, verificationMap) an invocation returns to the proxy is
\* the (allowed, signatureVerifications) of the last ScanResult reported for
\* its scan id: when it returns, the report sent last under that id is its
\* own final report, sent in the same step, and carries the returned pair;
\* the invocation reports nothing afterwards.
C32_ReturnAgreesWithReport ==
    /\ [](\A s \in Scans :
            returned[s].returned => AgreesWithLastReport(s, returned[s], trace[s]))
    /\ [][\A s \in Scans :
            ~returned[s].returned /\ returned'[s].returned =>
                /\ trace'[s][Len(trace'[s])] = LastReport(trace'[s])
                /\ Len(trace'[s]) > Len(trace[s])
                /\ \A t \in Scans \ {s} : trace'[t] = trace[t]
                /\ returned'[s].allowed = LastReport(trace'[s]).allowed
                /\ returned'[s].verificationMap = LastReport(trace'[s]).signatureVerifications
      ]_vars

\* A blocked operation the human allowed: the override entry is in the
\* returned map and in the last report alike.
C32_Witness ==
    \E s \in Scans :
        /\ returned[s].returned /\ returned[s].allowed
        /\ UserOverride \in returned[s].verificationMap
        /\ AgreesWithLastReport(s, returned[s], trace[s])
        /\ ~MergedReport(s).allowed

\* ------------------------------------------------------- the pending table
Awaiting == {s \in Scans : pc[s] = "await_user"}

\* C33 as claimed: the entries of pendingSecurityAlerts correspond one to one
\* to the invocations suspended for a human decision: each such invocation
\* has its own entry, every entry is that of such an invocation, and the
\* table is empty when no invocation is suspended.
C33_PendingMatchesAwaiting ==
    /\ \A s \in Awaiting :
          /\ requestId[s] \in DOMAIN pendingSecurityAlerts
          /\ pendingSecurityAlerts[requestId[s]].resolve = s
    /\ \A id \in DOMAIN pendingSecurityAlerts :
          pendingSecurityAlerts[id].resolve \in Awaiting
    /\ Cardinality(DOMAIN pendingSecurityAlerts) = Cardinality(Awaiting)

\* ---------------------------------------------------- the text of the LLM
MaxLines == 4      \* lines of a reply of the LLM

\* The lines of a reply that the pattern of line 210 tells apart:
\* `SIGNATURE ID: <id>`, `ALLOWED: true|false`, and `REASON: ` followed on
\* its line by nothing, by white space alone, or by a text.
IdLine(id) == [kind |-> "SIGNATURE ID", value |-> id]
AllowedLine(value) == [kind |-> "ALLOWED", value |-> value]
ReasonLine(text) == [kind |-> "REASON", value |-> text]
ReasonTexts == {"", " ", "r"}
LLMLines ==
    {IdLine(id) : id \in {"l1", "l2"}} \cup {AllowedLine(v) : v \in {"true", "false"}}
        \cup {ReasonLine(text) : text \in ReasonTexts}
LLMTexts == UNION {[1..n -> LLMLines] : n \in 0..MaxLines}

Least(S) == CHOOSE n \in S : \A m \in S : n <= m

\* `REASON: ([^\n]+)` of line 210: at least one character, other than a line
\* feed, follows the marker on its line.
reasonPattern(line) == line.kind = "REASON" /\ line.value # ""

\* llmOutput.match(signaturePattern) of 210-211 and what 217-218 read from
\* the match.  The pattern starts at the first `SIGNATURE ID: <id>`; each
\* lazy [\s\S]*? then runs over any lines, those of later blocks included,
\* to the first `ALLOWED: ` and from there to the first REASON line that
\* reasonPattern matches.  Without such lines there is no match.
signaturePattern(llmOutput, id) ==
    LET after(p, ok(_)) == {q \in p + 1..Len(llmOutput) : ok(llmOutput[q])}
        isId(line) == line = IdLine(id)
        isAllowed(line) == line.kind = "ALLOWED"
        ids == after(0, isId)
    IN  IF ids = {} THEN "absent"
        ELSE LET alloweds == after(Least(ids), isAllowed) IN
             IF alloweds = {} THEN "absent"
             ELSE LET reasons == after(Least(alloweds), reasonPattern) IN
                  IF reasons = {} THEN "absent"
                  ELSE LET allowed == llmOutput[Least(alloweds)].value
                           blank == llmOutput[Least(reasons)].value = " "
                       IN  IF blank THEN IF allowed = "true" THEN "true_blank" ELSE "false_blank"
                           ELSE allowed

\* A call of processVerificationResults from verifyContent (701-703): the
\* text the LLM returned and the verdicts of the deterministic signatures.
ResultsStates ==
    {[signatures |-> <<"l1", "d1", "l2">>, signaturesDirectory |-> TRUE,
      settings |-> Settings("REQUEST_RESPONSE", dis)] : dis \in SUBSET {"l1", "l2"}}

ResultsCalls ==
    {[llmOutput |-> llmOutput, deterministicResults |-> [id \in {"d1"} |-> d1],
      output |-> << >>] :
        llmOutput \in LLMTexts,
        d1 \in {[allowed |-> TRUE, reason |-> "Deterministic check passed"],
                [allowed |-> FALSE, reason |-> "Invalid signature function return type"]}}

InitResults ==
    /\ state \in ResultsStates
    /\ now = 0
    /\ pc = [s \in Scans |-> "idle"]
    /\ req = [s \in Scans |-> [type |-> "none"]]
    /\ deterministicResults = [s \in Scans |-> << >>]
    /\ verification = [s \in Scans |-> NoVerification]
    /\ verificationMap = [s \in Scans |-> {}]
    /\ finalScanResult = [s \in Scans |-> NoScanResult]
    /\ finalVerification = [s \in Scans |-> NoVerification]
    /\ returned = [s \in Scans |-> NoReturn]
    /\ requestId = [s \in Scans |-> NoId]
    /\ promise = [s \in Scans |-> NoPromise]
    /\ timer = [s \in Scans |-> NoTimer]
    /\ pendingSecurityAlerts = << >>
    /\ trace = [s \in Scans |-> << >>]
    /\ promptCall = NoCall
    /\ requestCall = NoCall
    /\ resultsCall \in ResultsCalls
    /\ configCall = NoCall
    /\ files = [main |-> Missing, backup |-> Missing]
    /\ recentlyModifiedByUs = {}
    /\ removalTimers = << >>
    /\ fileResult = NoCall
    /\ cursorCall = NoCall

\* verifyContent merges the verdicts (701-703).
ProcessResults ==
    /\ resultsCall.output = << >>
    /\ LET llmSignatures == llmSignaturesOf(enabledSignatures)
           matches == [id \in Range(llmSignatures) |->
                          signaturePattern(resultsCall.llmOutput, id)]
       IN resultsCall' = [resultsCall EXCEPT !.output =
              <<processVerificationResults(matches, llmSignatures,
                                           resultsCall.deterministicResults,
                                           determineVerificationMethod)>>]
    /\ UNCHANGED <<cursorCall, fileResult, removalTimers, recentlyModifiedByUs, files, configCall, state, now, pc, req, deterministicResults, verification, verificationMap,
                   finalScanResult, finalVerification, returned, requestId, promise, timer,
                   pendingSecurityAlerts, trace, promptCall, requestCall>>

NextResults == ProcessResults

SpecResults == InitResults /\ [][NextResults]_vars

\* The block of a signature in a reply says `ALLOWED: false`: the line
\* follows the signature's marker with no other marker or verdict between.
SaysDenied(llmOutput, id) ==
    \E p, q \in 1..Len(llmOutput) :
        /\ p < q
        /\ llmOutput[p] = IdLine(id)
        /\ llmOutput[q] = AllowedLine("false")
        /\ \A m \in p + 1..q - 1 : llmOutput[m].kind = "REASON"

\* C34 as claimed: when the reply says `ALLOWED: false` in the block of an
\* enabled LLM signature, that signature's entry is a deny and the merged
\* verdict is blocked, whatever the REASON line holds and also without one.
C34_DeniedBlockBlocks ==
    resultsCall.output # << >> =>
        LET out == resultsCall.output[1] IN
        \A id \in Range(llmSignaturesOf(enabledSignatures)) :
            SaysDenied(resultsCall.llmOutput, id) =>
                /\ ~out.allowed
                /\ \E e \in out.verificationMap : e.signatureId = id /\ ~e.allowed

\* ------------------------------------------------- concurrent invocations
\* What one invocation holds: its locals, its escalation, what it sent.
Locals(s) ==
    <<pc[s], req[s], deterministicResults[s], verification[s], verificationMap[s],
      finalScanResult[s], finalVerification[s], returned[s], requestId[s], promise[s],
      timer[s], trace[s]>>

\* C35 as claimed: invocations in flight together do not interfere.  Every
\* step is the step of one invocation and changes nothing that another
\* holds, and the human's response to the alert of a suspended invocation
\* decides that invocation, as it does when the invocation runs alone.
C35_NoInterference ==
    [][/\ \A s, t \in Scans : Locals(s)' # Locals(s) /\ Locals(t)' # Locals(t) => s = t
       /\ \A s \in Scans, a \in BOOLEAN :
             /\ pc[s] = "await_user"
             /\ promise[s].status = "pending"
             /\ HandleResponse(requestId[s], a)
             => /\ returned'[s].returned
                /\ returned'[s].allowed = a
                /\ finalScanResult'[s].allowed = a
      ]_vars

\* ------------------------------------------------- the MCP configurations
MaxServers == 2    \* servers of one configuration

\* A server key is a sequence of characters; Lock stands for the one
\* character U+1F512.  The names of ./types are distinct strings.
Lock == "lock"
PROTECTION_INDICATOR == <<" ", Lock>>
OriginalUrl == "MCP_DEFENDER_ORIGINAL_URL"
OriginalCommand == "MCP_DEFENDER_ORIGINAL_COMMAND"
OriginalArgs == "MCP_DEFENDER_ORIGINAL_ARGS"
AppName == "MCP_DEFENDER_APP_NAME"
ServerName == "MCP_DEFENDER_SERVER_NAME"

cliPath == "/app/cli.js"
effectiveAppName == "cursor"
\* `http://localhost:${this.proxyPort}/${effectiveAppName}/${key}/sse`
proxyUrl == "http://localhost:28173/cursor/<key>/sse"

\* text.replace(part, ''): the first occurrence is removed.
replace(text, part) ==
    IF ~Includes(text, part) THEN text
    ELSE LET i == CHOOSE j \in 1..Len(text) :
                      /\ j + Len(part) - 1 <= Len(text)
                      /\ SubSeq(text, j, j + Len(part) - 1) = part
                      /\ \A k \in 1..j - 1 : SubSeq(text, k, k + Len(part) - 1) # part
         IN SubSeq(text, 1, i - 1) \o SubSeq(text, i + Len(part), Len(text))

\* server.env || {} and server.env?.[name] for a variable that holds a
\* string: a missing env has no variable, and an empty string is falsy.
envOf(server) == IF "env" \in DOMAIN server THEN server.env ELSE << >>
HasEnv(server, name) == name \in DOMAIN envOf(server) /\ envOf(server)[name] # ""

\* JSON.stringify of an array of strings, and JSON.parse of that text.
JSONstringify(args) == <<"[">> \o args \o <<"]">>
JSONparse(text) == SubSeq(text, 2, Len(text) - 1)

\* The body of the loop of protectConfig for one server (929-985).
protectServer(key, server, enableSSEProxying) ==
    LET sse == IF "url" \in DOMAIN server /\ enableSSEProxying
               THEN MapSet(MapSet(server, "url", proxyUrl),
                           "env",
                           MapSet(MapSet(MapSet(envOf(server), OriginalUrl, server.url),
                                         AppName, effectiveAppName),
                                  ServerName, key))
               ELSE server
    IN  IF "command" \in DOMAIN sse
        THEN LET originalCommand == sse.command
                 originalArgs == IF "args" \in DOMAIN sse THEN sse.args ELSE << >>
                 newEnv == MapSet(MapSet(MapSet(MapSet(envOf(sse),
                                  OriginalCommand, originalCommand),
                                  OriginalArgs, JSONstringify(originalArgs)),
                                  AppName, effectiveAppName),
                                  ServerName, key)
             IN MapSet(MapSet(MapSet(sse, "command", "node"),
                              "args", <<cliPath, originalCommand>> \o originalArgs),
                       "env", newEnv)
        ELSE sse

\* protectConfig (919-995): every server is rewritten, and a key without the
\* lock gets the indicator; a renamed server replaces one listed under its
\* new key.
protectConfig(config, enableSSEProxying) ==
    LET newKey(key) == IF Includes(key, <<Lock>>) THEN key ELSE key \o PROTECTION_INDICATOR
        renamed == {key \in DOMAIN config : newKey(key) # key}
        kept == DOMAIN config \ renamed
    IN  [k \in kept \cup {newKey(key) : key \in renamed} |->
            IF \E key \in renamed : newKey(key) = k
            THEN LET key == CHOOSE old \in renamed : newKey(old) = k
                 IN protectServer(key, config[key], enableSSEProxying)
            ELSE protectServer(k, config[k], enableSSEProxying)]

\* Lines 1267-1277 and 1306-1318: the env without our variables, dropped
\* when nothing else is left in it.
withoutMetadata_KeepEmpty(server, names) ==
    MapSet(server, "env", [n \in DOMAIN server.env \ names |-> server.env[n]])

withoutMetadata(server, names) ==
    LET newEnv == [n \in DOMAIN server.env \ names |-> server.env[n]]
    IN  IF DOMAIN newEnv # {} THEN MapSet(server, "env", newEnv) ELSE MapDelete(server, "env")

\* The body of the loop of unprotectConfig for one server (1261-1320).
unprotectServer(server) ==
    LET sse == IF "url" \in DOMAIN server /\ HasEnv(server, OriginalUrl)
               THEN withoutMetadata(MapSet(server, "url", server.env[OriginalUrl]),
                                    {OriginalUrl, AppName, ServerName})
               ELSE server
    IN  IF /\ "command" \in DOMAIN sse
           /\ sse.command = "node"
           /\ "args" \in DOMAIN sse
           /\ Len(sse.args) > 0
           /\ sse.args[1] = cliPath
           /\ HasEnv(sse, OriginalCommand)
        THEN LET args == IF OriginalArgs \in DOMAIN sse.env   \* a JSON text is not empty
                         THEN JSONparse(sse.env[OriginalArgs]) ELSE << >>
             IN withoutMetadata(MapSet(MapSet(sse, "command", sse.env[OriginalCommand]),
                                       "args", args),
                                {OriginalCommand, OriginalArgs, AppName, ServerName})
        ELSE sse

\* unprotectConfig (1222-1332): the secure tools servers are removed, every
\* server is restored, and a key with the indicator loses it; a renamed
\* server replaces one listed under its new key.
unprotectConfig(config) ==
    LET servers == [k \in DOMAIN config \ {<<"mcp-defender-secure-tools">>, <<"secure-tools">>}
                       |-> config[k]]
        renamed == {key \in DOMAIN servers : Includes(key, PROTECTION_INDICATOR)}
        newKey(key) == replace(key, PROTECTION_INDICATOR)
        kept == DOMAIN servers \ renamed
    IN  [k \in kept \cup {newKey(key) : key \in renamed} |->
            IF \E key \in renamed : newKey(key) = k
            THEN LET key == CHOOSE old \in renamed : newKey(old) = k
                 IN unprotectServer(servers[key])
            ELSE unprotectServer(servers[k])]

\* The configurations of the applications: servers started by a command
\* (STDIO) and servers reached at a url (SSE), args and env being optional.
Optional(field, values) == {<< >>} \cup {[f \in {field} |-> v] : v \in values}
Envs == Optional("env", {<< >>, [API_KEY |-> "secret"]})
StdioServers ==
    {[command |-> c] @@ a @@ e :
        c \in {"npx", "node"}, a \in Optional("args", {<< >>, <<"-y">>}), e \in Envs}
SseServers == {[url |-> "https://example.com/sse"] @@ e : e \in Envs}
ServerKeys == {<<"a">>, <<"b">>, <<"a">> \o PROTECTION_INDICATOR, <<"secure-tools">>}
UnprotectedConfigs ==
    UNION {[keys -> StdioServers \cup SseServers] :
               keys \in {K \in SUBSET ServerKeys : Cardinality(K) <= MaxServers}}

ConfigCalls == {[config |-> c, output |-> << >>] : c \in UnprotectedConfigs}

InitConfig ==
    /\ state \in ScanInitialStates
    /\ now = 0
    /\ pc = [s \in Scans |-> "idle"]
    /\ req = [s \in Scans |-> [type |-> "none"]]
    /\ deterministicResults = [s \in Scans |-> << >>]
    /\ verification = [s \in Scans |-> NoVerification]
    /\ verificationMap = [s \in Scans |-> {}]
    /\ finalScanResult = [s \in Scans |-> NoScanResult]
    /\ finalVerification = [s \in Scans |-> NoVerification]
    /\ returned = [s \in Scans |-> NoReturn]
    /\ requestId = [s \in Scans |-> NoId]
    /\ promise = [s \in Scans |-> NoPromise]
    /\ timer = [s \in Scans |-> NoTimer]
    /\ pendingSecurityAlerts = << >>
    /\ trace = [s \in Scans |-> << >>]
    /\ promptCall = NoCall
    /\ requestCall = NoCall
    /\ resultsCall = NoCall
    /\ configCall \in ConfigCalls
    /\ files = [main |-> Missing, backup |-> Missing]
    /\ recentlyModifiedByUs = {}
    /\ removalTimers = << >>
    /\ fileResult = NoCall
    /\ cursorCall = NoCall

\* A configuration is protected and the result unprotected, as
\* processConfigFile and the restore of an application do in turn.
RoundTrip(enableSSEProxying) ==
    /\ configCall.output = << >>
    /\ configCall' = [configCall EXCEPT !.output =
           <<unprotectConfig(protectConfig(configCall.config, enableSSEProxying))>>]
    /\ UNCHANGED <<cursorCall, fileResult, removalTimers, recentlyModifiedByUs, files, state, now, pc, req, deterministicResults, verification, verificationMap,
                   finalScanResult, finalVerification, returned, requestId, promise, timer,
                   pendingSecurityAlerts, trace, promptCall, requestCall, resultsCall>>

NextConfig == \E enableSSEProxying \in BOOLEAN : RoundTrip(enableSSEProxying)

SpecConfig == InitConfig /\ [][NextConfig]_vars

\* C36 as claimed: unprotectConfig(protectConfig(c)) is c for every
\* configuration c of unprotected STDIO and SSE servers.
C36_RoundTrip ==
    configCall.output # << >> => configCall.output[1] = configCall.config

\* No key holds the lock, every STDIO server has its args array, and an env
\* that is there is not empty.
Regular(config) ==
    \A key \in DOMAIN config :
        /\ ~Includes(key, <<Lock>>)
        /\ "command" \in DOMAIN config[key] => "args" \in DOMAIN config[key]
        /\ "env" \in DOMAIN config[key] => DOMAIN config[key].env # {}

\* C36 amended: the round trip restores every such configuration.
C36_RoundTripOfRegular ==
    configCall.output # << >> /\ Regular(configCall.config) =>
        configCall.output[1] = configCall.config

C36_Witness ==
    /\ configCall.output # << >>
    /\ Regular(configCall.config)
    /\ \E k1, k2 \in DOMAIN configCall.config :
          /\ "command" \in DOMAIN configCall.config[k1]
          /\ "env" \in DOMAIN configCall.config[k1]
          /\ "url" \in DOMAIN configCall.config[k2]
    /\ protectConfig(configCall.config, TRUE) # configCall.config
    /\ configCall.output[1] = configCall.config

\* ------------------------------------------------ the configuration files
MaxWaits == 2      \* seconds that pass in one run
MaxTimers == 2     \* removal timers that are pending together
MARK_DELAY == 2000

\* analyzeConfig (836-903): isProtected of every server, or a TypeError from
\* `args.length` (880-881) for a node command without args.
analyzeThrows(config) ==
    \E key \in DOMAIN config :
        LET server == config[key] IN
        /\ ServerName \notin DOMAIN envOf(server)
        /\ "url" \notin DOMAIN server
        /\ "command" \in DOMAIN server
        /\ server.command = "node"
        /\ "args" \notin DOMAIN server

isProtected(server) ==
    \/ ServerName \in DOMAIN envOf(server)
    \/ /\ "url" \in DOMAIN server
       /\ server.url = proxyUrl
       /\ HasEnv(server, OriginalUrl)
    \/ /\ "url" \notin DOMAIN server
       /\ "command" \in DOMAIN server
       /\ server.command = "node"
       /\ Len(server.args) > 0
       /\ server.args[1] = cliPath

\* injectSecureToolsServer (1339-1412) of a configuration that unprotectConfig
\* returned: the server is added when the setting is on, and the
\* configuration is as it was when the setting is off or unknown.
injectSecureToolsServer(config, useMCPDefenderSecureTools) ==
    IF useMCPDefenderSecureTools /\ <<"secure-tools">> \notin DOMAIN config
    THEN MapSet(config, <<"secure-tools">>,
                [command |-> "npx", args |-> <<"-y", "@mcp-defender/mcp-defender-secure-tools">>,
                 env |-> << >>])
    ELSE config

\* What fs.writeFile does: it writes the text; or it fails before the file
\* is opened; or it fails after the file was opened and truncated.
WriteOutcomes == {"written", "refused", "truncated"}

\* setTimeout(() => recentlyModifiedByUs.delete(filePath), 2000) of 799-802.
startTimer(timers, filePath) ==
    Append(timers, [path |-> filePath, deadline |-> now + MARK_DELAY])

\* writeConfig (786-806) on the files fs, the marks and the timers: the new
\* three, and whether it threw.
writeConfig(fs, marks, timers, filePath, config, outcome) ==
    IF outcome = "written"
    THEN [files |-> [fs EXCEPT ![filePath] = Json(2, config)],
          recentlyModifiedByUs |-> marks \cup {filePath},
          removalTimers |-> startTimer(timers, filePath),
          threw |-> FALSE]
    ELSE [files |-> IF outcome = "truncated" THEN [fs EXCEPT ![filePath] = Invalid] ELSE fs,
          recentlyModifiedByUs |-> marks,
          removalTimers |-> timers,
          threw |-> TRUE]

Result(name, success) == [output |-> <<[call |-> name, success |-> success]>>]

\* restoreUnprotectedConfig (1000-1101).  outcome: what the write of the main
\* file does; unlinked: whether fs.unlink of the backup succeeds.
RestoreUnprotectedConfig(outcome, unlinked) ==
    /\ Len(removalTimers) < MaxTimers
    /\ IF \/ files.main.kind = "missing"          \* 1012-1028
          \/ files.backup.kind # "json"           \* 1031-1059
       THEN /\ fileResult' = Result("restoreUnprotectedConfig", FALSE)
            /\ UNCHANGED <<files, recentlyModifiedByUs, removalTimers>>
       ELSE LET unprotectedConfig == files.backup.value
                w == writeConfig(files, recentlyModifiedByUs, removalTimers, "main",
                                 unprotectedConfig, outcome)
            IN  /\ recentlyModifiedByUs' = w.recentlyModifiedByUs
                /\ removalTimers' = w.removalTimers
                /\ IF w.threw \/ analyzeThrows(unprotectedConfig)   \* 1065-1070, 1095-1100
                   THEN /\ files' = w.files
                        /\ fileResult' = Result("restoreUnprotectedConfig", FALSE)
                   ELSE /\ files' = IF unlinked THEN [w.files EXCEPT !.backup = Missing]
                                    ELSE w.files
                        /\ fileResult' = Result("restoreUnprotectedConfig", TRUE)
    /\ UNCHANGED <<cursorCall, state, now, pc, req, deterministicResults, verification, verificationMap,
                   finalScanResult, finalVerification, returned, requestId, promise, timer,
                   pendingSecurityAlerts, trace, promptCall, requestCall, resultsCall,
                   configCall>>

\* processConfigFile (1110-1206).  backupOutcome and outcome: what the writes
\* of the backup and of the main file do.
ProcessConfigFile(enableSSEProxying, useMCPDefenderSecureTools, backupOutcome, outcome) ==
    /\ Len(removalTimers) + 2 <= MaxTimers
    /\ IF \/ files.main.kind # "json"                 \* readConfig throws (1126)
          \/ analyzeThrows(files.main.value)          \* 1132
       THEN /\ fileResult' = Result("processConfigFile", FALSE)
            /\ UNCHANGED <<files, recentlyModifiedByUs, removalTimers>>
       ELSE LET appConfig == files.main.value
                none == [files |-> files, recentlyModifiedByUs |-> recentlyModifiedByUs,
                         removalTimers |-> removalTimers, threw |-> FALSE]
                b == IF files.backup.kind = "missing"       \* 1137-1146
                     THEN writeConfig(files, recentlyModifiedByUs, removalTimers, "backup",
                                      appConfig, backupOutcome)
                     ELSE none
                protectedMcpConfig ==
                    protectConfig(injectSecureToolsServer(unprotectConfig(appConfig),
                                                          useMCPDefenderSecureTools),
                                  enableSSEProxying)
                w == IF b.threw THEN b
                     ELSE writeConfig(b.files, b.recentlyModifiedByUs, b.removalTimers, "main",
                                      protectedMcpConfig, outcome)
                newProtectedCount ==
                    Cardinality({k \in DOMAIN protectedMcpConfig :
                                     isProtected(protectedMcpConfig[k])})
            IN  /\ files' = w.files
                /\ recentlyModifiedByUs' = w.recentlyModifiedByUs
                /\ removalTimers' = w.removalTimers
                /\ fileResult' = Result("processConfigFile",
                                        /\ ~w.threw
                                        /\ DOMAIN appConfig # {}          \* 1175-1181
                                        /\ newProtectedCount # 0)         \* 1182-1188
    /\ UNCHANGED <<cursorCall, state, now, pc, req, deterministicResults, verification, verificationMap,
                   finalScanResult, finalVerification, returned, requestId, promise, timer,
                   pendingSecurityAlerts, trace, promptCall, requestCall, resultsCall,
                   configCall>>

\* The servers and keys of the files.
FileServers ==
    {[command |-> "npx", args |-> <<"-y">>], [command |-> "node"],
     [url |-> "https://example.com/sse"]}
FileKeys == {<<"a">>, <<"b">>}

\* The user, or the application, adds a server to the main file.
ExternalEdit(key, server) ==
    /\ files.main.kind = "json"
    /\ key \notin DOMAIN files.main.value
    /\ ~Includes(key, <<Lock>>)
    /\ files' = [files EXCEPT !.main = Json(4, MapSet(files.main.value, key, server))]
    /\ UNCHANGED <<cursorCall, state, now, pc, req, deterministicResults, verification, verificationMap,
                   finalScanResult, finalVerification, returned, requestId, promise, timer,
                   pendingSecurityAlerts, trace, promptCall, requestCall, resultsCall,
                   configCall, recentlyModifiedByUs, removalTimers, fileResult>>

\* The callback of the oldest timer runs (799-802).
RemovalTimerFires ==
    /\ removalTimers # << >>
    /\ now >= Head(removalTimers).deadline
    /\ recentlyModifiedByUs' = recentlyModifiedByUs \ {Head(removalTimers).path}
    /\ removalTimers' = Tail(removalTimers)
    /\ UNCHANGED <<cursorCall, state, now, pc, req, deterministicResults, verification, verificationMap,
                   finalScanResult, finalVerification, returned, requestId, promise, timer,
                   pendingSecurityAlerts, trace, promptCall, requestCall, resultsCall,
                   configCall, files, fileResult>>

\* A second passes.
Wait ==
    /\ now < MaxWaits * 1000
    /\ now' = now + 1000
    /\ UNCHANGED <<cursorCall, state, pc, req, deterministicResults, verification, verificationMap,
                   finalScanResult, finalVerification, returned, requestId, promise, timer,
                   pendingSecurityAlerts, trace, promptCall, requestCall, resultsCall,
                   configCall, files, recentlyModifiedByUs, removalTimers, fileResult>>

FileConfigs == UNION {[keys -> FileServers] : keys \in {{}, {<<"a">>}}}

Idle ==
    /\ state \in ScanInitialStates
    /\ now = 0
    /\ pc = [s \in Scans |-> "idle"]
    /\ req = [s \in Scans |-> [type |-> "none"]]
    /\ deterministicResults = [s \in Scans |-> << >>]
    /\ verification = [s \in Scans |-> NoVerification]
    /\ verificationMap = [s \in Scans |-> {}]
    /\ finalScanResult = [s \in Scans |-> NoScanResult]
    /\ finalVerification = [s \in Scans |-> NoVerification]
    /\ returned = [s \in Scans |-> NoReturn]
    /\ requestId = [s \in Scans |-> NoId]
    /\ promise = [s \in Scans |-> NoPromise]
    /\ timer = [s \in Scans |-> NoTimer]
    /\ pendingSecurityAlerts = << >>
    /\ trace = [s \in Scans |-> << >>]
    /\ promptCall = NoCall
    /\ requestCall = NoCall
    /\ resultsCall = NoCall
    /\ configCall = NoCall
    /\ recentlyModifiedByUs = {}
    /\ removalTimers = << >>
    /\ fileResult = NoCall

\* The files as an application and its user can have left them.
InitFiles ==
    /\ Idle
    /\ cursorCall = NoCall
    /\ files \in {[main |-> m, backup |-> b] :
                     m \in {Missing, Invalid} \cup {Json(4, c) : c \in FileConfigs},
                     b \in {Missing, Directory, Invalid} \cup {Json(4, c) : c \in FileConfigs}}

NextFiles ==
    \/ \E outcome \in WriteOutcomes, unlinked \in BOOLEAN :
           RestoreUnprotectedConfig(outcome, unlinked)
    \/ \E enableSSEProxying, useMCPDefenderSecureTools \in BOOLEAN,
          backupOutcome, outcome \in WriteOutcomes :
           ProcessConfigFile(enableSSEProxying, useMCPDefenderSecureTools, backupOutcome, outcome)
    \/ \E key \in FileKeys, server \in FileServers : ExternalEdit(key, server)
    \/ RemovalTimerFires
    \/ Wait

SpecFiles == InitFiles /\ [][NextFiles]_vars

\* C37 as claimed: a restoreUnprotectedConfig that returns success=false has
\* left the main file as it was and the backup in place; one that returns
\* success=true has left in the main file the value the backup held.
C37_RestoreAllOrNothing ==
    [][\A outcome \in WriteOutcomes, unlinked \in BOOLEAN :
          RestoreUnprotectedConfig(outcome, unlinked) =>
              LET success == fileResult'.output[1].success IN
              /\ ~success => files' = files
              /\ success => /\ files'.main.kind = "json"
                            /\ files'.main.value = files.backup.value
      ]_vars

\* ------------------------------------------- protection from a fresh file
\* An application's configuration that was never protected: no backup.
InitProtect ==
    /\ Idle
    /\ cursorCall = NoCall
    /\ files \in {[main |-> Json(4, c), backup |-> Missing] : c \in FileConfigs}

SpecProtect == InitProtect /\ [][NextFiles]_vars

\* C38 as claimed: whatever processConfigFile calls and additions of servers
\* came before, a successful restoreUnprotectedConfig leaves in the main file
\* every server the file held just before, in its unprotected form; and a
\* backup that processConfigFile writes is the unprotected form of the
\* configuration it protects.
C38_RestoreKeepsServers ==
    [][/\ \A outcome \in WriteOutcomes, unlinked \in BOOLEAN :
             /\ RestoreUnprotectedConfig(outcome, unlinked)
             /\ fileResult'.output[1].success
             /\ files.main.kind = "json"
             => LET before == unprotectConfig(files.main.value) IN
                \A key \in DOMAIN before :
                    /\ key \in DOMAIN files'.main.value
                    /\ files'.main.value[key] = before[key]
       /\ \A e, u \in BOOLEAN, b, o \in WriteOutcomes :
             /\ ProcessConfigFile(e, u, b, o)
             /\ files'.backup # files.backup
             /\ files'.backup.kind = "json"
             => files'.backup.value = unprotectConfig(files.main.value)
      ]_vars

\* C39 as claimed: a path written by writeConfig stays marked in
\* recentlyModifiedByUs while the removal timer started by that write has
\* not fired; here, while that timer is not even due.
C39_MarkedWhileTimerPending ==
    \A i \in 1..Len(removalTimers) :
        now < removalTimers[i].deadline => removalTimers[i].path \in recentlyModifiedByUs

\* -------------------------------------------------------- the Cursor rules
MaxRules == 4      \* rules listed at Cursor

\* The text of a rule, as the pieces the filters of unprotectCursor look
\* for, and rule.text.trim().toLowerCase() of it.
RuleTexts ==
    {<<"be kind">>, <<"mcp defender">>, <<"MCP Defender">>, <<"user_intent">>,
     <<"mcp_defender_", "user_intent">>}
toLowerCase(text) == [i \in DOMAIN text |-> IF text[i] = "MCP Defender" THEN "mcp defender"
                                            ELSE text[i]]

\* The filter of the rules to delete (601-604).
isMcpDefenderRule(rule) ==
    \/ Includes(toLowerCase(rule.text), <<"mcp defender">>)
    \/ Includes(toLowerCase(rule.text), <<"user_intent">>)

\* The filter of the rules that remain (634-637).
isRemainingMcpRule(rule) ==
    \/ Includes(toLowerCase(rule.text), <<"mcp defender">>)
    \/ Includes(toLowerCase(rule.text), <<"mcp_defender_", "user_intent">>)

\* unprotectCursor (582-655).  deleted: the rules that api.deleteRule
\* removes; for the others it returns false or throws.  The rules listed
\* afterwards, and the value returned.
unprotectCursor(authToken, rules, deleted) ==
    IF ~authToken THEN [rules |-> rules, returned |-> FALSE]                   \* 587-591
    ELSE LET mcpDefenderRules == {rule \in rules : isMcpDefenderRule(rule)} IN
         IF mcpDefenderRules = {} THEN [rules |-> rules, returned |-> TRUE]    \* 606-609
         ELSE LET listed == rules \ (mcpDefenderRules \cap deleted)            \* 614-629
                  remainingMcpRules == {rule \in listed : isRemainingMcpRule(rule)}
              IN [rules |-> listed, returned |-> remainingMcpRules = {}]       \* 639-645

Rules == {[id |-> text, text |-> text] : text \in RuleTexts}

CursorCalls ==
    {[authToken |-> authToken, rules |-> rules, output |-> << >>] :
        authToken \in BOOLEAN,
        rules \in {R \in SUBSET Rules : Cardinality(R) <= MaxRules}}

InitCursor ==
    /\ Idle
    /\ files = [main |-> Missing, backup |-> Missing]
    /\ cursorCall \in CursorCalls

UnprotectCursor(deleted) ==
    /\ cursorCall.output = << >>
    /\ LET result == unprotectCursor(cursorCall.authToken, cursorCall.rules, deleted)
       IN cursorCall' = [cursorCall EXCEPT !.rules = result.rules,
                                           !.output = <<result.returned>>]
    /\ UNCHANGED <<state, now, pc, req, deterministicResults, verification, verificationMap,
                   finalScanResult, finalVerification, returned, requestId, promise, timer,
                   pendingSecurityAlerts, trace, promptCall, requestCall, resultsCall,
                   configCall, files, recentlyModifiedByUs, removalTimers, fileResult>>

NextCursor == \E deleted \in SUBSET cursorCall.rules : UnprotectCursor(deleted)

SpecCursor == InitCursor /\ [][NextCursor]_vars

\* C40 as claimed: unprotectCursor returns true only when no rule that its
\* filter of the rules to delete matches is listed afterwards.
C40_TrueOnlyWhenUnprotected ==
    cursorCall.output = <<TRUE>> => \A rule \in cursorCall.rules : ~isMcpDefenderRule(rule)

====
